---- MODULE Spec2Model ----
(***************************************************************************)
(* Hybrid file management of bolt.diy: the module-level `codesandbox`      *)
(* promise and CodeSandboxInstance (app/routes/test-file-management.tsx),  *)
(* HybridFileManager and LocalFileSystem (app/lib/stores/files-hybrid.ts). *)
(*                                                                         *)
(* Paths are sequences of one-character strings; a letter stands for one   *)
(* character of a file name.  Promises of the SDK and of the WebContainer  *)
(* are settled by the environment: each may resolve, reject or stay        *)
(* pending for ever.                                                       *)
(***************************************************************************)
EXTENDS Naturals, Integers, Sequences, FiniteSets, TLC

VARIABLES
    ssr,                \* import.meta.env.SSR
    apiKey,             \* VITE_CSB_API_KEY is set
    codesandbox,        \* the exported promise `codesandbox`
    modPc,              \* position of the promise chain that builds `codesandbox`
    instConstructed,    \* a real CodeSandboxInstance has been constructed
    mockConstructed,    \* number of MockCodeSandboxInstance objects constructed
    initialized,        \* CodeSandboxInstance._initialized
    instError,          \* CodeSandboxInstance._error
    instSandboxId,      \* CodeSandboxInstance._sandboxId
    instFileSystem,     \* CodeSandboxInstance._fileSystem
    instPc,             \* position inside CodeSandboxInstance.initialize()
    sandboxPromise,     \* this._sdk.sandboxes.create(...)
    timeoutPromise,     \* the 8000 ms timer of initialize()
    race,               \* Promise.race([sandboxPromise, timeoutPromise])
    connectPromise,     \* sandbox.connect()
    createCalls,        \* calls of sandboxes.create
    connectCalls,       \* calls of sandbox.connect
    codesandboxContext, \* the exported codesandboxContext object
    webcontainer,       \* the imported promise `webcontainer`
    mgrPc,              \* position inside HybridFileManager._initialize()
    provider,           \* HybridFileManager._provider
    isReady,            \* HybridFileManager._isReady
    mgrError,           \* HybridFileManager._error
    mgrFileSystem,      \* HybridFileManager._fileSystem (which adapter object)
    wcTried,            \* the manager has awaited `webcontainer`
    files,              \* LocalFileSystem._files, in insertion order
    lastOp,             \* the last completed operation: its arguments, the adapter
                        \* calls it issued and what it returned to the caller
    opCount,            \* number of operations completed so far
    uploadQueue,        \* blobs of the running uploadFiles/uploadFolder loop
    searchQuery,        \* Search: useState searchQuery
    searchResults,      \* Search: useState searchResults
    isSearching,        \* Search: useState isSearching
    hasSearched,        \* Search: useState hasSearched
    searchProvider,     \* Search: useState searchProvider
    providerStatus,     \* Search: useState providerStatus
    checkPc,            \* position inside checkProviders()
    debounced,          \* calls of handleSearch that a debounce timer holds back
    runs,               \* the calls of handleSearch made so far, each with its position
    timers,             \* pending setTimeout(() => setIsSearching(false), ...)
    uiInputs,           \* what the user has done so far: keystrokes and clicks
    storeFiles,         \* HybridFilesStore.files: the map from path to FileNode
    filesCount,         \* HybridFilesStore.filesCount
    storeCalls          \* the calls made on the store so far, each with its position

initVars == <<ssr, apiKey, codesandbox, modPc, instConstructed, mockConstructed,
              initialized, instError, instSandboxId, instFileSystem, instPc,
              sandboxPromise, timeoutPromise, race, connectPromise, createCalls,
              connectCalls, codesandboxContext, webcontainer>>
mgrVars == <<mgrPc, provider, isReady, mgrError, mgrFileSystem, wcTried>>
opVars == <<files, lastOp, opCount, uploadQueue>>
uiVars == <<searchQuery, searchResults, isSearching, hasSearched, searchProvider,
            providerStatus, checkPc, debounced, runs, timers, uiInputs>>
storeVars == <<storeFiles, filesCount, storeCalls>>
vars == <<initVars, mgrVars, opVars, uiVars, storeVars>>

----------------------------------------------------------------------------
(* Bounds of the model *)

\* operations issued on the manager in one behaviour
MaxOps == 2
\* blobs in one upload batch
MaxBatch == 1
\* calls made on a LocalFileSystem in one behaviour
MaxLocalOps == 2
\* calls made on a CodeSandboxInstance in one behaviour
MaxInstOps == 2
\* lines in the file whose content is an input of a search
MaxLines == 2

----------------------------------------------------------------------------
(* Error messages *)

ErrTimeout == "Sandbox creation timeout"
ErrDataViewFallback == "CodeSandbox SDK connection error - using local fallback"
\* messages of errors raised by the SDK: one ordinary, one of the DataView class
ErrConn == "connection refused"
ErrDataView == "RangeError: Offset is outside the bounds of the DataView"
SdkErrors == {ErrConn, ErrDataView}
ErrNotInitialized == "CodeSandbox not initialized"
ErrNotReady == "File manager not ready"
ErrHealth == "CodeSandbox health check failed"
ErrNoKey == "CodeSandbox API key not found"
NoError == "null"

\* errorMessage.includes('DataView') || includes('Offset is outside the bounds') ||
\* includes('RangeError')
IsDataViewError(msg) == msg = ErrDataView

ClassifyInitError(msg) == IF IsDataViewError(msg) THEN ErrDataViewFallback ELSE msg

----------------------------------------------------------------------------
(* Priority chain *)

Providers == {"codesandbox", "webcontainer", "local"}

Rank(p) == CASE p = "codesandbox" -> 0
             [] p = "webcontainer" -> 1
             [] p = "local" -> 2

----------------------------------------------------------------------------
(* Strings: a path is a sequence of one-character strings *)

Slash == "/"

RECURSIVE SeqsUpTo(_, _)
SeqsUpTo(S, n) ==
    IF n = 0 THEN {<<>>}
    ELSE LET shorter == SeqsUpTo(S, n - 1)
         IN  shorter \cup {Append(q, c) : q \in shorter, c \in S}

\* String.prototype.startsWith
StartsWith(str, prefix) ==
    /\ Len(prefix) <= Len(str)
    /\ SubSeq(str, 1, Len(prefix)) = prefix

\* String.prototype.includes('/')
IncludesSlash(str) == \E i \in 1..Len(str) : str[i] = Slash

\* String.prototype.lastIndexOf('/'), 0-based, -1 when absent
LastIndexOfSlash(str) ==
    IF IncludesSlash(str)
    THEN (CHOOSE i \in 1..Len(str) :
            /\ str[i] = Slash
            /\ \A j \in (i + 1)..Len(str) : str[j] # Slash) - 1
    ELSE -1

\* String.prototype.substring(0, end): a negative end counts as 0
SubstringTo(str, end) == IF end <= 0 THEN <<>> ELSE SubSeq(str, 1, end)

\* String.prototype.substring(start)
SubstringFrom(str, start) == SubSeq(str, start + 1, Len(str))

\* path.split('/').filter(Boolean): the maximal runs of non-separator characters
RECURSIVE SplitSegments(_, _)
SplitSegments(str, cur) ==
    IF str = <<>> THEN (IF cur = <<>> THEN <<>> ELSE <<cur>>)
    ELSE IF Head(str) = Slash
         THEN (IF cur = <<>> THEN <<>> ELSE <<cur>>) \o SplitSegments(Tail(str), <<>>)
         ELSE SplitSegments(Tail(str), Append(cur, Head(str)))

Segments(path) == SplitSegments(path, <<>>)

\* the seeded paths: "p" stands for package.json, "r" for README.md, "s" for src and
\* "x" for App.tsx
PackageJson == <<Slash, "p">>
ReadmeMd == <<Slash, "r">>
SrcAppTsx == <<Slash, "s", Slash, "x">>

\* the paths given to the operations: the root, the seeded paths and paths around them,
\* well formed (absolute, no empty segment) and not
Paths ==
    { <<Slash>>, PackageJson, ReadmeMd, SrcAppTsx,
      <<Slash, "s">>, <<Slash, "x">>, <<Slash, "s", Slash, "s">>, <<Slash, "x", Slash, "s">>,
      <<Slash, "s", Slash, "x", Slash, "s">>, <<Slash, "x", Slash, "s", Slash, "x">>,
      <<>>, <<"s">>, <<"s", Slash, "x">>, <<Slash, "s", Slash>>,
      <<Slash, Slash, "s">>, <<Slash, "s", Slash, Slash, "x">> }
Contents == {"", "c"}

----------------------------------------------------------------------------
(* LocalFileSystem: _files is a Map, kept here as the sequence of its       *)
(* entries in insertion order; lastModified (the clock) is left out.        *)

FileNode(path, content) == [path |-> path, content |-> content, isBinary |-> FALSE]

\* constructor: the three default files; no entry for /src itself
SeedFiles ==
    << FileNode(PackageJson, "pkg"),
       FileNode(ReadmeMd, "readme"),
       FileNode(SrcAppTsx, "app") >>

\* Map.prototype.has / get / set / delete
MapHas(fs, path) == \E i \in 1..Len(fs) : fs[i].path = path

MapIndex(fs, path) == CHOOSE i \in 1..Len(fs) : fs[i].path = path

MapGet(fs, path) == fs[MapIndex(fs, path)]

MapSet(fs, path, node) ==
    IF MapHas(fs, path)
    THEN [fs EXCEPT ![MapIndex(fs, path)] = node]
    ELSE Append(fs, node)

MapDelete(fs, path) ==
    IF MapHas(fs, path)
    THEN LET i == MapIndex(fs, path)
         IN  SubSeq(fs, 1, i - 1) \o SubSeq(fs, i + 1, Len(fs))
    ELSE fs

\* the values and arguments of the operations, tagged by their type
Undefined == [undefined |-> TRUE]
Text(t) == [text |-> t]
Entries(e) == [entries |-> e]
Flag(b) == [flag |-> b]
Stat(isFile, isDirectory, size) ==
    [isFile |-> isFile, isDirectory |-> isDirectory, size |-> size]
NoArg == [none |-> TRUE]
Content(c) == [content |-> c]
Recursive(b) == [recursive |-> b]

\* what a method hands back: it returns `value` or throws `error`; `files` is the
\* store it leaves behind
Returned(value, fs) == [ok |-> TRUE, value |-> value, error |-> NoError, files |-> fs]
Thrown(error, fs) == [ok |-> FALSE, value |-> Undefined, error |-> error, files |-> fs]

\* a variant that takes an empty content for a missing file
Local_readFile_FalsyContent(fs, path) ==
    IF ~MapHas(fs, path) \/ MapGet(fs, path).content = ""
    THEN Thrown("File not found", fs)
    ELSE Returned(Text(MapGet(fs, path).content), fs)

Local_readFile(fs, path) ==
    IF ~MapHas(fs, path)
    THEN Thrown("File not found", fs)
    ELSE Returned(Text(MapGet(fs, path).content), fs)

\* a variant of the loop that writes a placeholder at every part, present or not
RECURSIVE MkdirParts_Overwrites(_, _, _)
MkdirParts_Overwrites(fs, parts, currentPath) ==
    IF parts = <<>> THEN fs
    ELSE LET next == currentPath \o <<Slash>> \o Head(parts)
         IN  MkdirParts_Overwrites(MapSet(fs, next, FileNode(next, "")), Tail(parts), next)

\* the loop of mkdir(path, true) over parts, currentPath accumulating
RECURSIVE MkdirParts(_, _, _)
MkdirParts(fs, parts, currentPath) ==
    IF parts = <<>> THEN fs
    ELSE LET next == currentPath \o <<Slash>> \o Head(parts)
             fs2 == IF ~MapHas(fs, next) THEN MapSet(fs, next, FileNode(next, "")) ELSE fs
         IN  MkdirParts(fs2, Tail(parts), next)

\* a variant that rejects an existing path whatever `recursive` is
Local_mkdir_RejectsExisting(fs, path, recursive) ==
    IF MapHas(fs, path)
    THEN Thrown("Directory already exists", fs)
    ELSE IF recursive
         THEN Returned(Undefined, MkdirParts(fs, Segments(path), <<>>))
         ELSE Returned(Undefined, MapSet(fs, path, FileNode(path, "")))

Local_mkdir(fs, path, recursive) ==
    IF MapHas(fs, path)
    THEN IF recursive THEN Returned(Undefined, fs)
         ELSE Thrown("Directory already exists", fs)
    ELSE IF recursive
         THEN Returned(Undefined, MkdirParts(fs, Segments(path), <<>>))
         ELSE Returned(Undefined, MapSet(fs, path, FileNode(path, "")))

Local_writeFile(fs, path, content) ==
    LET parentDir == SubstringTo(path, LastIndexOfSlash(path))
        fs2 == IF parentDir # <<>> /\ parentDir # path
               THEN Local_mkdir(fs, parentDir, TRUE).files
               ELSE fs
    IN  Returned(Undefined, MapSet(fs2, path, FileNode(path, content)))

\* a variant of the loop that lists every entry under the prefix, however deep
RECURSIVE ReaddirLoop_Deep(_, _, _)
ReaddirLoop_Deep(fs, path, prefix) ==
    IF fs = <<>> THEN <<>>
    ELSE LET filePath == Head(fs).path
             rest == ReaddirLoop_Deep(Tail(fs), path, prefix)
         IN  IF StartsWith(filePath, prefix) /\ filePath # path
             THEN <<SubstringFrom(filePath, Len(prefix))>> \o rest
             ELSE rest

\* the entries, in Map order, of the immediate children
RECURSIVE ReaddirLoop(_, _, _)
ReaddirLoop(fs, path, prefix) ==
    IF fs = <<>> THEN <<>>
    ELSE LET filePath == Head(fs).path
             relativePath == SubstringFrom(filePath, Len(prefix))
             rest == ReaddirLoop(Tail(fs), path, prefix)
         IN  IF StartsWith(filePath, prefix) /\ filePath # path /\ ~IncludesSlash(relativePath)
             THEN <<relativePath>> \o rest
             ELSE rest

DirPrefix(path) == IF path = <<Slash>> THEN <<Slash>> ELSE path \o <<Slash>>

Local_readdir(fs, path) == Returned(Entries(ReaddirLoop(fs, path, DirPrefix(path))), fs)

\* a variant that takes the deletion of a missing path for done
Local_deleteFile_Silent(fs, path) == Returned(Undefined, MapDelete(fs, path))

Local_deleteFile(fs, path) ==
    IF ~MapHas(fs, path)
    THEN Thrown("File not found", fs)
    ELSE Returned(Undefined, MapDelete(fs, path))

\* a variant that deletes the immediate children only
DeleteByPrefix_ChildrenOnly(fs, prefix) ==
    SelectSeq(fs, LAMBDA n : ~(StartsWith(n.path, prefix)
                               /\ ~IncludesSlash(SubstringFrom(n.path, Len(prefix)))))

\* the entries left when every path starting with prefix is deleted
DeleteByPrefix(fs, prefix) == SelectSeq(fs, LAMBDA n : ~StartsWith(n.path, prefix))

\* a variant that does not look for children
Local_deleteDirectory_Unchecked(fs, path, recursive) ==
    IF ~MapHas(fs, path)
    THEN Thrown("Directory not found", fs)
    ELSE LET fs2 == MapDelete(fs, path)
         IN  Returned(Undefined,
                      IF recursive THEN DeleteByPrefix(fs2, DirPrefix(path)) ELSE fs2)

Local_deleteDirectory(fs, path, recursive) ==
    IF ~MapHas(fs, path)
    THEN Thrown("Directory not found", fs)
    ELSE IF ~recursive /\ Len(Local_readdir(fs, path).value.entries) > 0
         THEN Thrown("Directory not empty", fs)
         ELSE LET fs2 == MapDelete(fs, path)
              IN  Returned(Undefined,
                           IF recursive THEN DeleteByPrefix(fs2, DirPrefix(path)) ELSE fs2)

Local_exists(fs, path) == Returned(Flag(MapHas(fs, path)), fs)

Local_stat(fs, path) ==
    IF ~MapHas(fs, path)
    THEN Thrown("File not found", fs)
    ELSE LET file == MapGet(fs, path)
         IN  Returned(Stat(file.content # "", file.content = "", Len(file.content)), fs)

----------------------------------------------------------------------------
(* CodeSandboxInstance: the adapter methods.  `outcome` is what the         *)
(* underlying primitive of this._fileSystem does when it is called.         *)

PrimOutcomes == {"resolve", "reject"}
NoHandle == "null"
Handle == "handle"
ErrPrimitive == "primitive failed"
\* what the remote file system answers when a primitive resolves
RemoteText == "remote text"
RemoteEntries == << <<"x">> >>
RemoteStat == Stat(TRUE, FALSE, Len(RemoteText))

\* what an adapter method hands back, and whether it reached the primitive
InstReturned(value, called) ==
    [ok |-> TRUE, value |-> value, error |-> NoError, called |-> called]
InstThrown(error, called) ==
    [ok |-> FALSE, value |-> Undefined, error |-> error, called |-> called]

\* if (!this._initialized || !this._fileSystem) throw
InstGuardFails(init, handle) == ~init \/ handle = NoHandle

Inst_readFile(init, handle, outcome) ==
    IF InstGuardFails(init, handle) THEN InstThrown(ErrNotInitialized, FALSE)
    ELSE IF outcome = "resolve" THEN InstReturned(Text(RemoteText), TRUE)
    ELSE InstReturned(Text(""), TRUE)

Inst_readdir(init, handle, outcome) ==
    IF InstGuardFails(init, handle) THEN InstThrown(ErrNotInitialized, FALSE)
    ELSE IF outcome = "resolve" THEN InstReturned(Entries(RemoteEntries), TRUE)
    ELSE InstReturned(Entries(<<>>), TRUE)

Inst_stat(init, handle, outcome) ==
    IF InstGuardFails(init, handle) THEN InstThrown(ErrNotInitialized, FALSE)
    ELSE IF outcome = "resolve" THEN InstReturned(RemoteStat, TRUE)
    ELSE InstThrown(ErrPrimitive, TRUE)

Inst_writeFile(init, handle, outcome) ==
    IF InstGuardFails(init, handle) THEN InstThrown(ErrNotInitialized, FALSE)
    ELSE IF outcome = "resolve" THEN InstReturned(Undefined, TRUE)
    ELSE InstThrown(ErrPrimitive, TRUE)

Inst_mkdir(init, handle, outcome) ==
    IF InstGuardFails(init, handle) THEN InstThrown(ErrNotInitialized, FALSE)
    ELSE IF outcome = "resolve" THEN InstReturned(Undefined, TRUE)
    ELSE InstThrown(ErrPrimitive, TRUE)

Inst_remove(init, handle, outcome) ==
    IF InstGuardFails(init, handle) THEN InstThrown(ErrNotInitialized, FALSE)
    ELSE IF outcome = "resolve" THEN InstReturned(Undefined, TRUE)
    ELSE InstThrown(ErrPrimitive, TRUE)

\* healthCheck: false when not initialized or when readdir('/') throws
Inst_healthCheck(init, handle, outcome) ==
    IF ~init THEN InstReturned(Flag(FALSE), FALSE)
    ELSE LET r == Inst_readdir(init, handle, outcome)
         IN  InstReturned(Flag(r.ok), r.called)

----------------------------------------------------------------------------
(* State after the modules are loaded and the singletons constructed *)

NoOp == [layer |-> "none", op |-> "none"]
NoUpload == [kind |-> "none", blobs |-> <<>>]

\* the Search component after its first render and its effects: checkProviders() has
\* reached `await webcontainer`, and the effect of searchQuery has handed '' to the
\* debounced handleSearch
SearchMounted ==
    /\ searchQuery = <<>>
    /\ searchResults = <<>>
    /\ isSearching = FALSE
    /\ hasSearched = FALSE
    /\ searchProvider = "webcontainer"
    /\ providerStatus = [webcontainer |-> "loading", codesandbox |-> "loading"]
    /\ checkPc = "awaitWebcontainer"
    /\ debounced = [current |-> << <<>> >>, stale |-> <<>>]
    /\ runs = <<>>
    /\ timers = 0
    /\ uiInputs = 0

\* a call on the HybridFilesStore: its arguments, where it stands, whether the manager
\* call it made succeeded, and for a traversal the paths still to visit and the nodes
\* collected so far
StoreCall(op, path, arg, pc, ok, todo, found) ==
    [op |-> op, path |-> path, arg |-> arg, pc |-> pc, ok |-> ok, todo |-> todo,
     found |-> found]

EmptyFileMap == [p \in {} |-> FileNode(p, "")]

\* new HybridFilesStore(): the atoms, then _initialize() up to its first
\* `await new Promise(... setTimeout ...)` or, once the manager is ready, loadFileTree()
StoreConstructed ==
    /\ storeFiles = EmptyFileMap
    /\ filesCount = 0
    /\ storeCalls = << StoreCall("_initialize", <<Slash>>, NoArg, "awaitReady", TRUE, <<>>, <<>>) >>

Init ==
    /\ ssr \in BOOLEAN
    /\ apiKey \in BOOLEAN
    \* SSR: the noop promise; no key: Promise.reject; otherwise the chain is queued
    /\ codesandbox = IF ~ssr /\ ~apiKey THEN "rejected" ELSE "pending"
    /\ modPc = IF ~ssr /\ apiKey THEN "start" ELSE "done"
    /\ instConstructed = FALSE
    /\ mockConstructed = 0
    /\ initialized = FALSE
    /\ instError = NoError
    /\ instSandboxId = ""
    /\ instFileSystem = NoHandle
    /\ instPc = "idle"
    /\ sandboxPromise = "none"
    /\ timeoutPromise = "none"
    /\ race = "none"
    /\ connectPromise = "none"
    /\ createCalls = 0
    /\ connectCalls = 0
    /\ codesandboxContext = [loaded |-> FALSE, sandboxId |-> "undefined", error |-> "undefined"]
    /\ webcontainer = "pending"
    \* new HybridFileManager(): a LocalFileSystem, then _initialize() up to `await codesandbox`
    /\ mgrPc = "awaitCodesandbox"
    /\ provider = "local"
    /\ isReady = FALSE
    /\ mgrError = "undefined"
    /\ mgrFileSystem = "local#0"
    /\ wcTried = FALSE
    /\ files = SeedFiles
    /\ lastOp = NoOp
    /\ opCount = 0
    /\ uploadQueue = NoUpload
    /\ SearchMounted
    /\ StoreConstructed

----------------------------------------------------------------------------
(* The promise chain that settles `codesandbox` *)

SandboxId == "33s7n6"

\* the catch block of CodeSandboxInstance.initialize()
InitializeCatch(msg) ==
    /\ instError' = ClassifyInitError(msg)
    /\ codesandboxContext' = [codesandboxContext EXCEPT !.error = ClassifyInitError(msg),
                                                         !.loaded = FALSE]
    /\ instPc' = "thrown"

\* .then(async () => { new CodeSandboxInstance(apiKey); await instance.initialize() ...
\* initialize() runs up to `await Promise.race(...)`.  The SDK constructor may throw.
ModuleThen ==
    /\ modPc = "start"
    /\ \E ctorThrows \in BOOLEAN :
         IF ctorThrows
         THEN /\ modPc' = "catch"
              /\ UNCHANGED <<instConstructed, sandboxPromise, timeoutPromise, race,
                             createCalls, instPc>>
         ELSE /\ instConstructed' = TRUE
              /\ createCalls' = createCalls + 1
              /\ sandboxPromise' = "pending"
              /\ timeoutPromise' = "pending"
              /\ race' = "pending"
              /\ instPc' = "awaitRace"
              /\ modPc' = "awaitInitialize"
    /\ UNCHANGED <<uiVars, storeVars, ssr, apiKey, codesandbox, mockConstructed, initialized, instError,
                   instSandboxId, instFileSystem, connectPromise, connectCalls,
                   codesandboxContext, webcontainer, mgrVars, opVars>>

\* sandboxes.create resolves; if the race is still open initialize() goes on to connect
SandboxCreateResolves ==
    /\ sandboxPromise = "pending"
    /\ sandboxPromise' = "resolved"
    /\ IF race = "pending"
       THEN /\ race' = "sandbox"
            /\ instSandboxId' = SandboxId
            /\ connectCalls' = connectCalls + 1
            /\ connectPromise' = "pending"
            /\ instPc' = "awaitConnect"
       ELSE UNCHANGED <<race, instSandboxId, connectCalls, connectPromise, instPc>>
    /\ UNCHANGED <<uiVars, storeVars, ssr, apiKey, codesandbox, modPc, instConstructed, mockConstructed,
                   initialized, instError, instFileSystem, timeoutPromise, createCalls,
                   codesandboxContext, webcontainer, mgrVars, opVars>>

\* sandboxes.create rejects
SandboxCreateRejects ==
    /\ sandboxPromise = "pending"
    /\ sandboxPromise' = "rejected"
    /\ \E msg \in SdkErrors :
         IF race = "pending"
         THEN /\ race' = "sandboxError"
              /\ InitializeCatch(msg)
         ELSE UNCHANGED <<race, instError, codesandboxContext, instPc>>
    /\ UNCHANGED <<uiVars, storeVars, ssr, apiKey, codesandbox, modPc, instConstructed, mockConstructed,
                   initialized, instSandboxId, instFileSystem, timeoutPromise,
                   connectPromise, createCalls, connectCalls, webcontainer, mgrVars, opVars>>

\* a variant in which the timer's rejection reaches the catch block even after the
\* race was decided
TimeoutFires_NoRace ==
    /\ timeoutPromise = "pending"
    /\ timeoutPromise' = "rejected"
    /\ race' = IF race = "pending" THEN "timeout" ELSE race
    /\ InitializeCatch(ErrTimeout)
    /\ UNCHANGED <<uiVars, storeVars, ssr, apiKey, codesandbox, modPc, instConstructed, mockConstructed,
                   initialized, instSandboxId, instFileSystem, sandboxPromise,
                   connectPromise, createCalls, connectCalls, webcontainer, mgrVars, opVars>>

\* setTimeout(() => reject(new Error('Sandbox creation timeout')), 8000)
TimeoutFires ==
    /\ timeoutPromise = "pending"
    /\ timeoutPromise' = "rejected"
    /\ IF race = "pending"
       THEN /\ race' = "timeout"
            /\ InitializeCatch(ErrTimeout)
       ELSE UNCHANGED <<race, instError, codesandboxContext, instPc>>
    /\ UNCHANGED <<uiVars, storeVars, ssr, apiKey, codesandbox, modPc, instConstructed, mockConstructed,
                   initialized, instSandboxId, instFileSystem, sandboxPromise,
                   connectPromise, createCalls, connectCalls, webcontainer, mgrVars, opVars>>

\* sandbox.connect() resolves: lines 226-229
ConnectResolves ==
    /\ connectPromise = "pending"
    /\ connectPromise' = "resolved"
    /\ initialized' = TRUE
    /\ codesandboxContext' = [loaded |-> TRUE, sandboxId |-> instSandboxId,
                              error |-> "undefined"]
    /\ instPc' = "returned"
    /\ UNCHANGED <<uiVars, storeVars, ssr, apiKey, codesandbox, modPc, instConstructed, mockConstructed,
                   instError, instSandboxId, instFileSystem, sandboxPromise,
                   timeoutPromise, race, createCalls, connectCalls, webcontainer,
                   mgrVars, opVars>>

\* sandbox.connect() rejects
ConnectRejects ==
    /\ connectPromise = "pending"
    /\ connectPromise' = "rejected"
    /\ \E msg \in SdkErrors : InitializeCatch(msg)
    /\ UNCHANGED <<uiVars, storeVars, ssr, apiKey, codesandbox, modPc, instConstructed, mockConstructed,
                   initialized, instSandboxId, instFileSystem, sandboxPromise,
                   timeoutPromise, race, createCalls, connectCalls, webcontainer,
                   mgrVars, opVars>>

\* await instance.initialize() returned: return instance
ModuleReturnsInstance ==
    /\ modPc = "awaitInitialize"
    /\ instPc = "returned"
    /\ codesandbox' = "real"
    /\ modPc' = "done"
    /\ UNCHANGED <<uiVars, storeVars, ssr, apiKey, instConstructed, mockConstructed, initialized, instError,
                   instSandboxId, instFileSystem, instPc, sandboxPromise, timeoutPromise,
                   race, connectPromise, createCalls, connectCalls, codesandboxContext,
                   webcontainer, mgrVars, opVars>>

\* await instance.initialize() threw: new MockCodeSandboxInstance(), whose constructor
\* runs the SDK constructor too; then await mockInstance.initialize()
ModuleInitializeFailed ==
    /\ modPc = "awaitInitialize"
    /\ instPc = "thrown"
    /\ \E ctorThrows \in BOOLEAN :
         IF ctorThrows
         THEN modPc' = "catch" /\ UNCHANGED mockConstructed
         ELSE modPc' = "awaitMock" /\ mockConstructed' = mockConstructed + 1
    /\ UNCHANGED <<uiVars, storeVars, ssr, apiKey, codesandbox, instConstructed, initialized, instError,
                   instSandboxId, instFileSystem, instPc, sandboxPromise, timeoutPromise,
                   race, connectPromise, createCalls, connectCalls, codesandboxContext,
                   webcontainer, mgrVars, opVars>>

\* .catch((error) => { new MockCodeSandboxInstance(); return mockInstance.initialize()...
ModuleCatch ==
    /\ modPc = "catch"
    /\ \E ctorThrows \in BOOLEAN :
         IF ctorThrows
         THEN /\ modPc' = "done"
              /\ codesandbox' = "rejected"
              /\ UNCHANGED mockConstructed
         ELSE /\ modPc' = "awaitMock"
              /\ mockConstructed' = mockConstructed + 1
              /\ UNCHANGED codesandbox
    /\ UNCHANGED <<uiVars, storeVars, ssr, apiKey, instConstructed, initialized, instError,
                   instSandboxId, instFileSystem, instPc, sandboxPromise, timeoutPromise,
                   race, connectPromise, createCalls, connectCalls, codesandboxContext,
                   webcontainer, mgrVars, opVars>>

\* mockInstance.initialize() returned: the chain resolves to the mock instance
ModuleReturnsMock ==
    /\ modPc = "awaitMock"
    /\ codesandbox' = "mock"
    /\ modPc' = "done"
    /\ UNCHANGED <<uiVars, storeVars, ssr, apiKey, instConstructed, mockConstructed, initialized, instError,
                   instSandboxId, instFileSystem, instPc, sandboxPromise, timeoutPromise,
                   race, connectPromise, createCalls, connectCalls, codesandboxContext,
                   webcontainer, mgrVars, opVars>>

\* the imported `webcontainer` promise settles (its module is not part of these sources)
WebcontainerResolves ==
    /\ webcontainer = "pending"
    /\ webcontainer' = "resolved"
    /\ UNCHANGED <<uiVars, storeVars, ssr, apiKey, codesandbox, modPc, instConstructed, mockConstructed,
                   initialized, instError, instSandboxId, instFileSystem, instPc,
                   sandboxPromise, timeoutPromise, race, connectPromise, createCalls,
                   connectCalls, codesandboxContext, mgrVars, opVars>>

WebcontainerRejects ==
    /\ webcontainer = "pending"
    /\ webcontainer' = "rejected"
    /\ UNCHANGED <<uiVars, storeVars, ssr, apiKey, codesandbox, modPc, instConstructed, mockConstructed,
                   initialized, instError, instSandboxId, instFileSystem, instPc,
                   sandboxPromise, timeoutPromise, race, connectPromise, createCalls,
                   connectCalls, codesandboxContext, mgrVars, opVars>>

----------------------------------------------------------------------------
(* HybridFileManager._initialize() *)

\* a variant that falls to the local file system without trying WebContainer
MgrCodesandboxRejected_SkipsWebcontainer ==
    /\ mgrPc = "awaitCodesandbox"
    /\ codesandbox = "rejected"
    /\ provider' = "local"
    /\ mgrFileSystem' = "local#1"
    /\ files' = SeedFiles
    /\ isReady' = TRUE
    /\ mgrPc' = "done"
    /\ UNCHANGED <<uiVars, storeVars, initVars, mgrError, wcTried, lastOp, opCount, uploadQueue>>

\* `await codesandbox` throws (no API key, or the chain rejected): try WebContainer
MgrCodesandboxRejected ==
    /\ mgrPc = "awaitCodesandbox"
    /\ codesandbox = "rejected"
    /\ mgrPc' = "awaitWebcontainer"
    /\ wcTried' = TRUE
    /\ UNCHANGED <<uiVars, storeVars, initVars, provider, isReady, mgrError, mgrFileSystem, opVars>>

\* a variant that is ready on the local file system and still awaits WebContainer
MgrCodesandboxMock_KeepsProbing ==
    /\ mgrPc = "awaitCodesandbox"
    /\ codesandbox = "mock"
    /\ provider' = "local"
    /\ mgrFileSystem' = "local#1"
    /\ files' = SeedFiles
    /\ isReady' = TRUE
    /\ mgrPc' = "awaitWebcontainer"
    /\ wcTried' = TRUE
    /\ UNCHANGED <<uiVars, storeVars, initVars, mgrError, lastOp, opCount, uploadQueue>>

\* the instance is the mock: provider 'local', a new LocalFileSystem, ready
MgrCodesandboxMock ==
    /\ mgrPc = "awaitCodesandbox"
    /\ codesandbox = "mock"
    /\ provider' = "local"
    /\ mgrFileSystem' = "local#1"
    /\ files' = SeedFiles
    /\ isReady' = TRUE
    /\ mgrPc' = "done"
    /\ UNCHANGED <<uiVars, storeVars, initVars, mgrError, wcTried, lastOp, opCount, uploadQueue>>

\* the instance is a real one: await this._codesandboxInstance.healthCheck()
MgrCodesandboxReal ==
    /\ mgrPc = "awaitCodesandbox"
    /\ codesandbox = "real"
    /\ mgrPc' = "awaitHealthCheck"
    /\ UNCHANGED <<uiVars, storeVars, initVars, provider, isReady, mgrError, mgrFileSystem, wcTried, opVars>>

\* healthCheck() settles: healthy -> provider 'codesandbox', ready; else throw -> WebContainer
MgrHealthCheckSettles ==
    /\ mgrPc = "awaitHealthCheck"
    /\ \E outcome \in PrimOutcomes :
         IF Inst_healthCheck(initialized, instFileSystem, outcome).value.flag
         THEN /\ provider' = "codesandbox"
              /\ mgrFileSystem' = "codesandbox"
              /\ isReady' = TRUE
              /\ mgrPc' = "done"
              /\ UNCHANGED wcTried
         ELSE /\ mgrPc' = "awaitWebcontainer"
              /\ wcTried' = TRUE
              /\ UNCHANGED <<provider, mgrFileSystem, isReady>>
    /\ UNCHANGED <<uiVars, storeVars, initVars, mgrError, opVars>>

\* `await webcontainer` returned
MgrWebcontainerResolved ==
    /\ mgrPc = "awaitWebcontainer"
    /\ webcontainer = "resolved"
    /\ provider' = "webcontainer"
    /\ mgrFileSystem' = "webcontainer"
    /\ isReady' = TRUE
    /\ mgrPc' = "done"
    /\ UNCHANGED <<uiVars, storeVars, initVars, mgrError, wcTried, opVars>>

\* `await webcontainer` threw: the local fallback
MgrWebcontainerRejected ==
    /\ mgrPc = "awaitWebcontainer"
    /\ webcontainer = "rejected"
    /\ provider' = "local"
    /\ mgrFileSystem' = "local#1"
    /\ files' = SeedFiles
    /\ isReady' = TRUE
    /\ mgrPc' = "done"
    /\ UNCHANGED <<uiVars, storeVars, initVars, mgrError, wcTried, lastOp, opCount, uploadQueue>>

----------------------------------------------------------------------------
(* The adapters behind HybridFileManager._fileSystem.  `outs` are the       *)
(* outcomes of the (at most two) calls an adapter method makes on a remote  *)
(* file system; the local one needs none.                                   *)

OutcomePairs == PrimOutcomes \X PrimOutcomes

\* the outcomes that matter to a method: none unless a remote adapter is called, and
\* the second only to exists and stat
Outcomes(method) ==
    IF ~isReady \/ mgrFileSystem \notin {"webcontainer", "codesandbox"}
    THEN {<<"resolve", "resolve">>}
    ELSE IF method \in {"exists", "stat"} /\ mgrFileSystem = "webcontainer"
         THEN OutcomePairs
         ELSE {<<o, "resolve">> : o \in PrimOutcomes}

FsResult(ok, value, error, fs) == [ok |-> ok, value |-> value, error |-> error, files |-> fs]

\* lines 627-704: the WebContainer adapter
WebcontainerFs(method, outs, fs) ==
    CASE method \in {"readFile", "writeFile", "readdir", "mkdir", "deleteFile",
                     "deleteDirectory"} ->
            IF outs[1] = "resolve"
            THEN FsResult(TRUE, CASE method = "readFile" -> Text(RemoteText)
                                  [] method = "readdir" -> Entries(RemoteEntries)
                                  [] OTHER -> Undefined, NoError, fs)
            ELSE FsResult(FALSE, Undefined, ErrPrimitive, fs)
      [] method = "exists" ->
            \* readdir, and if that fails readFile
            FsResult(TRUE, Flag(outs[1] = "resolve" \/ outs[2] = "resolve"), NoError, fs)
      [] method = "stat" ->
            IF outs[1] = "resolve"
            THEN FsResult(TRUE, Stat(FALSE, TRUE, 0), NoError, fs)
            ELSE IF outs[2] = "resolve"
                 THEN FsResult(TRUE, Stat(TRUE, FALSE, Len(RemoteText)), NoError, fs)
                 ELSE FsResult(FALSE, Undefined, "File not found", fs)

\* lines 573-613: the CodeSandbox adapter, over the instance's methods
CodesandboxFs(method, outs, fs) ==
    LET r == CASE method = "readFile" -> Inst_readFile(initialized, instFileSystem, outs[1])
               [] method = "writeFile" -> Inst_writeFile(initialized, instFileSystem, outs[1])
               [] method = "readdir" -> Inst_readdir(initialized, instFileSystem, outs[1])
               [] method = "mkdir" -> Inst_mkdir(initialized, instFileSystem, outs[1])
               [] method \in {"deleteFile", "deleteDirectory"} ->
                      Inst_remove(initialized, instFileSystem, outs[1])
               [] method \in {"exists", "stat"} ->
                      Inst_stat(initialized, instFileSystem, outs[1])
    IN  IF method = "exists"
        THEN FsResult(TRUE, Flag(r.ok), NoError, fs)
        ELSE FsResult(r.ok, r.value, r.error, fs)

LocalFs(method, path, arg, fs) ==
    LET r == CASE method = "readFile" -> Local_readFile(fs, path)
               [] method = "writeFile" -> Local_writeFile(fs, path, arg.content)
               [] method = "readdir" -> Local_readdir(fs, path)
               [] method = "mkdir" -> Local_mkdir(fs, path, arg.recursive)
               [] method = "deleteFile" -> Local_deleteFile(fs, path)
               [] method = "deleteDirectory" -> Local_deleteDirectory(fs, path, arg.recursive)
               [] method = "exists" -> Local_exists(fs, path)
               [] method = "stat" -> Local_stat(fs, path)
    IN  FsResult(r.ok, r.value, r.error, r.files)

\* this._fileSystem.<method>(...)
FileSystemCall(method, path, arg, outs) ==
    CASE mgrFileSystem = "webcontainer" -> WebcontainerFs(method, outs, files)
      [] mgrFileSystem = "codesandbox" -> CodesandboxFs(method, outs, files)
      [] OTHER -> LocalFs(method, path, arg, files)

----------------------------------------------------------------------------
(* HybridFileManager: the unified operations *)

\* what an operation leaves in lastOp: the call, whether the manager was ready, the
\* calls made on this._fileSystem, and what the caller got
OpRecord(method, path, arg, calls, r) ==
    [layer |-> "manager", op |-> method, path |-> path, arg |-> arg, ready |-> isReady,
     calls |-> calls, ok |-> r.ok, value |-> r.value, error |-> r.error]

\* a variant that hands the call to the adapter whether the manager is ready or not
ManagerOp_NoGate(method, path, arg, outs) ==
    [calls |-> <<[method |-> method, path |-> path]>>,
     r |-> FileSystemCall(method, path, arg, outs)]

\* if (!this._isReady) throw ...; return this._fileSystem.<method>(...)
ManagerOp(method, path, arg, outs) ==
    IF ~isReady
    THEN [calls |-> <<>>, r |-> FsResult(FALSE, Undefined, ErrNotReady, files)]
    ELSE [calls |-> <<[method |-> method, path |-> path]>>,
          r |-> FileSystemCall(method, path, arg, outs)]

\* the paths and contents the manager is driven with
MgrPaths == {<<Slash>>, SrcAppTsx}
MgrContents == {"c"}

Operation(method, path, arg, outs) ==
    /\ opCount < MaxOps
    /\ LET m == ManagerOp(method, path, arg, outs)
       IN  /\ lastOp' = OpRecord(method, path, arg, m.calls, m.r)
           /\ files' = m.r.files
    /\ opCount' = opCount + 1
    /\ UNCHANGED <<uiVars, storeVars, initVars, mgrVars, uploadQueue>>

Mgr_readFile == \E p \in MgrPaths, o \in Outcomes("readFile") : Operation("readFile", p, NoArg, o)

Mgr_writeFile ==
    \E p \in MgrPaths, c \in MgrContents, o \in Outcomes("writeFile") : Operation("writeFile", p, Content(c), o)

Mgr_readdir == \E p \in MgrPaths, o \in Outcomes("readdir") : Operation("readdir", p, NoArg, o)

Mgr_mkdir ==
    \E p \in MgrPaths, rec \in BOOLEAN, o \in Outcomes("mkdir") : Operation("mkdir", p, Recursive(rec), o)

Mgr_deleteFile == \E p \in MgrPaths, o \in Outcomes("deleteFile") : Operation("deleteFile", p, NoArg, o)

Mgr_deleteDirectory ==
    \E p \in MgrPaths, rec \in BOOLEAN, o \in Outcomes("deleteDirectory") :
        Operation("deleteDirectory", p, Recursive(rec), o)

Mgr_exists == \E p \in MgrPaths, o \in Outcomes("exists") : Operation("exists", p, NoArg, o)

Mgr_stat == \E p \in MgrPaths, o \in Outcomes("stat") : Operation("stat", p, NoArg, o)

\* a variant that falls back to the local file system when the probe fails
Mgr_healthCheck_Demotes ==
    /\ opCount < MaxOps
    /\ \E o \in Outcomes("readdir") :
         LET m == ManagerOp("readdir", <<Slash>>, NoArg, o)
             value == IF ~isReady THEN FALSE ELSE m.r.ok
         IN  /\ lastOp' = [layer |-> "manager", op |-> "healthCheck", path |-> <<Slash>>,
                           arg |-> NoArg, ready |-> isReady, calls |-> m.calls,
                           callOk |-> m.r.ok, ok |-> TRUE, value |-> Flag(value),
                           error |-> NoError]
             /\ files' = m.r.files
             /\ IF isReady /\ ~m.r.ok
                THEN /\ provider' = "local"
                     /\ mgrFileSystem' = "local#1"
                ELSE UNCHANGED <<provider, mgrFileSystem>>
    /\ opCount' = opCount + 1
    /\ UNCHANGED <<uiVars, storeVars, initVars, mgrPc, isReady, mgrError, wcTried, uploadQueue>>

\* a variant that probes with stat('/') and reports the manager's readiness
Mgr_healthCheck_ReportsReadiness ==
    /\ opCount < MaxOps
    /\ \E o \in Outcomes("stat") :
         LET m == ManagerOp("stat", <<Slash>>, NoArg, o)
         IN  /\ lastOp' = [layer |-> "manager", op |-> "healthCheck", path |-> <<Slash>>,
                           arg |-> NoArg, ready |-> isReady, calls |-> m.calls,
                           callOk |-> m.r.ok, ok |-> TRUE, value |-> Flag(isReady),
                           error |-> NoError]
             /\ files' = m.r.files
    /\ opCount' = opCount + 1
    /\ UNCHANGED <<uiVars, storeVars, initVars, mgrVars, uploadQueue>>

\* healthCheck(): false when not ready; otherwise await this.readdir('/') in a try
Mgr_healthCheck ==
    /\ opCount < MaxOps
    /\ \E o \in Outcomes("readdir") :
         LET m == ManagerOp("readdir", <<Slash>>, NoArg, o)
             value == IF ~isReady THEN FALSE ELSE m.r.ok
         IN  /\ lastOp' = [layer |-> "manager", op |-> "healthCheck", path |-> <<Slash>>,
                           arg |-> NoArg, ready |-> isReady, calls |-> m.calls,
                           callOk |-> m.r.ok, ok |-> TRUE, value |-> Flag(value),
                           error |-> NoError]
             /\ files' = m.r.files
    /\ opCount' = opCount + 1
    /\ UNCHANGED <<uiVars, storeVars, initVars, mgrVars, uploadQueue>>

----------------------------------------------------------------------------
(* uploadFiles / uploadFolder: one writeFile per blob, each awaited *)

UploadBlobs ==
    { [name |-> <<"x">>, webkitRelativePath |-> <<>>, text |-> "c"],
      [name |-> <<"x">>, webkitRelativePath |-> <<"s", Slash, "x">>, text |-> "d"] }

Batches == SeqsUpTo(UploadBlobs, MaxBatch)

\* a variant that names every blob by its file name
UploadPath_NameOnly(kind, blob) == <<Slash>> \o blob.name

\* `/${file.webkitRelativePath}` when the folder upload has one, else `/${file.name}`
UploadPath(kind, blob) ==
    IF kind = "uploadFolder" /\ blob.webkitRelativePath # <<>>
    THEN <<Slash>> \o blob.webkitRelativePath
    ELSE <<Slash>> \o blob.name

UploadRecord(kind, ready, ok, error) ==
    [layer |-> "manager", op |-> kind, path |-> <<>>, arg |-> NoArg, ready |-> ready,
     calls |-> <<>>, ok |-> ok, value |-> Undefined, error |-> error]

\* the call: the readiness check, then the loop starts
UploadCall(kind, batch) ==
    /\ opCount < MaxOps
    /\ uploadQueue.kind = "none"
    /\ IF ~isReady
       THEN /\ lastOp' = UploadRecord(kind, FALSE, FALSE, ErrNotReady)
            /\ UNCHANGED uploadQueue
       ELSE /\ uploadQueue' = [kind |-> kind, blobs |-> batch]
            /\ UNCHANGED lastOp
    /\ opCount' = opCount + 1
    /\ UNCHANGED <<uiVars, storeVars, initVars, mgrVars, files>>

UploadStart(kind) == \E batch \in Batches : UploadCall(kind, batch)

Mgr_uploadFiles == UploadStart("uploadFiles")

Mgr_uploadFolder == UploadStart("uploadFolder")

\* one turn of the loop: await this.writeFile(path, content); a failure ends the upload
UploadWrite ==
    /\ uploadQueue.kind # "none"
    /\ uploadQueue.blobs # <<>>
    /\ \E o \in Outcomes("writeFile") :
         LET blob == Head(uploadQueue.blobs)
             path == UploadPath(uploadQueue.kind, blob)
             m == ManagerOp("writeFile", path, Content(blob.text), o)
         IN  /\ files' = m.r.files
             /\ IF m.r.ok
                THEN /\ lastOp' = OpRecord("writeFile", path, Content(blob.text), m.calls, m.r)
                     /\ uploadQueue' = [uploadQueue EXCEPT !.blobs = Tail(@)]
                ELSE /\ lastOp' = UploadRecord(uploadQueue.kind, TRUE, FALSE, m.r.error)
                     /\ uploadQueue' = NoUpload
    /\ UNCHANGED <<uiVars, storeVars, initVars, mgrVars, opCount>>

\* the loop is over: the upload resolves
UploadDone ==
    /\ uploadQueue.kind # "none"
    /\ uploadQueue.blobs = <<>>
    /\ lastOp' = UploadRecord(uploadQueue.kind, TRUE, TRUE, NoError)
    /\ uploadQueue' = NoUpload
    /\ UNCHANGED <<uiVars, storeVars, initVars, mgrVars, files, opCount>>

----------------------------------------------------------------------------
(* The program: the promise chain, the manager's initialization and the     *)
(* operations its callers issue                                             *)

InitializationStep ==
    \/ ModuleThen
    \/ SandboxCreateResolves
    \/ SandboxCreateRejects
    \/ TimeoutFires
    \/ ConnectResolves
    \/ ConnectRejects
    \/ ModuleReturnsInstance
    \/ ModuleInitializeFailed
    \/ ModuleCatch
    \/ ModuleReturnsMock
    \/ MgrCodesandboxRejected
    \/ MgrCodesandboxMock
    \/ MgrCodesandboxReal
    \/ MgrHealthCheckSettles
    \/ MgrWebcontainerResolved
    \/ MgrWebcontainerRejected

EnvironmentStep ==
    \/ WebcontainerResolves
    \/ WebcontainerRejects

OperationStep ==
    \/ Mgr_readFile
    \/ Mgr_writeFile
    \/ Mgr_readdir
    \/ Mgr_mkdir
    \/ Mgr_deleteFile
    \/ Mgr_deleteDirectory
    \/ Mgr_exists
    \/ Mgr_stat
    \/ Mgr_healthCheck
    \/ Mgr_uploadFiles
    \/ Mgr_uploadFolder
    \/ UploadWrite
    \/ UploadDone

Next == InitializationStep \/ EnvironmentStep \/ OperationStep

Spec == Init /\ [][Next]_vars

\* blobs in one batch when only uploads are issued
MaxUploadBatch == 2

UploadBatches == SeqsUpTo(UploadBlobs, MaxUploadBatch)

UploadFilesCall == \E batch \in UploadBatches : UploadCall("uploadFiles", batch)

UploadFolderCall == \E batch \in UploadBatches : UploadCall("uploadFolder", batch)

UploadStep ==
    \/ UploadFilesCall
    \/ UploadFolderCall
    \/ UploadWrite
    \/ UploadDone

\* the program when its callers only upload
UploadNext == InitializationStep \/ EnvironmentStep \/ UploadStep

UploadSpec == Init /\ [][UploadNext]_vars

----------------------------------------------------------------------------
(* A LocalFileSystem driven directly by its callers *)

InitLocal == Init /\ ~ssr /\ ~apiKey

\* a call on the LocalFileSystem, one of at most `limit` in a behaviour
LocalCallUpTo(limit, method, path, arg) ==
    /\ opCount < limit
    /\ LET r == LocalFs(method, path, arg, files)
       IN  /\ lastOp' = [layer |-> "local", op |-> method, path |-> path, arg |-> arg,
                         ok |-> r.ok, value |-> r.value, error |-> r.error]
           /\ files' = r.files
    /\ opCount' = opCount + 1
    /\ UNCHANGED <<uiVars, storeVars, initVars, mgrVars, uploadQueue>>

LocalCall(method, path, arg) == LocalCallUpTo(MaxLocalOps, method, path, arg)

LocalReadFile == \E p \in Paths : LocalCall("readFile", p, NoArg)

LocalWriteFile == \E p \in Paths, c \in Contents : LocalCall("writeFile", p, Content(c))

LocalReaddir == \E p \in Paths : LocalCall("readdir", p, NoArg)

LocalMkdir == \E p \in Paths, rec \in BOOLEAN : LocalCall("mkdir", p, Recursive(rec))

LocalDeleteFile == \E p \in Paths : LocalCall("deleteFile", p, NoArg)

LocalDeleteDirectory == \E p \in Paths, rec \in BOOLEAN : LocalCall("deleteDirectory", p, Recursive(rec))

LocalExists == \E p \in Paths : LocalCall("exists", p, NoArg)

LocalStat == \E p \in Paths : LocalCall("stat", p, NoArg)

LocalNext ==
    \/ LocalReadFile
    \/ LocalWriteFile
    \/ LocalReaddir
    \/ LocalMkdir
    \/ LocalDeleteFile
    \/ LocalDeleteDirectory
    \/ LocalExists
    \/ LocalStat

LocalSpec == InitLocal /\ [][LocalNext]_vars

\* longer sequences of calls that make and remove entries, on one small subtree
MaxSubtreeOps == 3

SubtreePaths == { <<Slash, "x">>, <<Slash, "x", Slash, "s">>, <<Slash, "x", Slash, "s", Slash, "x">> }

SubtreeWriteFile ==
    \E p \in SubtreePaths, c \in Contents :
        LocalCallUpTo(MaxSubtreeOps, "writeFile", p, Content(c))

SubtreeMkdir ==
    \E p \in SubtreePaths, rec \in BOOLEAN :
        LocalCallUpTo(MaxSubtreeOps, "mkdir", p, Recursive(rec))

SubtreeDeleteFile == \E p \in SubtreePaths : LocalCallUpTo(MaxSubtreeOps, "deleteFile", p, NoArg)

SubtreeDeleteDirectory ==
    \E p \in SubtreePaths, rec \in BOOLEAN :
        LocalCallUpTo(MaxSubtreeOps, "deleteDirectory", p, Recursive(rec))

SubtreeNext ==
    \/ SubtreeWriteFile
    \/ SubtreeMkdir
    \/ SubtreeDeleteFile
    \/ SubtreeDeleteDirectory

SubtreeSpec == InitLocal /\ [][SubtreeNext]_vars

----------------------------------------------------------------------------
(* A CodeSandboxInstance driven directly by its callers.  No line of the    *)
(* sources assigns this._fileSystem, so in the program it stays null and    *)
(* every method throws before it reaches a primitive (see Spec).  To        *)
(* exercise the methods' own handling of a failing primitive, here the      *)
(* field is an input: null, or a handle of the connected client.            *)

InitAdapter ==
    /\ ssr = FALSE
    /\ apiKey = TRUE
    /\ instFileSystem \in {NoHandle, Handle}
    /\ codesandbox = "pending"
    /\ modPc = "start"
    /\ instConstructed = FALSE
    /\ mockConstructed = 0
    /\ initialized = FALSE
    /\ instError = NoError
    /\ instSandboxId = ""
    /\ instPc = "idle"
    /\ sandboxPromise = "none"
    /\ timeoutPromise = "none"
    /\ race = "none"
    /\ connectPromise = "none"
    /\ createCalls = 0
    /\ connectCalls = 0
    /\ codesandboxContext = [loaded |-> FALSE, sandboxId |-> "undefined", error |-> "undefined"]
    /\ webcontainer = "pending"
    /\ mgrPc = "awaitCodesandbox"
    /\ provider = "local"
    /\ isReady = FALSE
    /\ mgrError = "undefined"
    /\ mgrFileSystem = "local#0"
    /\ wcTried = FALSE
    /\ files = SeedFiles
    /\ lastOp = NoOp
    /\ opCount = 0
    /\ uploadQueue = NoUpload
    /\ SearchMounted
    /\ StoreConstructed

InstMethods == {"readFile", "readdir", "stat", "writeFile", "mkdir", "remove"}

InstMethod(method, outcome) ==
    CASE method = "readFile" -> Inst_readFile(initialized, instFileSystem, outcome)
      [] method = "readdir" -> Inst_readdir(initialized, instFileSystem, outcome)
      [] method = "stat" -> Inst_stat(initialized, instFileSystem, outcome)
      [] method = "writeFile" -> Inst_writeFile(initialized, instFileSystem, outcome)
      [] method = "mkdir" -> Inst_mkdir(initialized, instFileSystem, outcome)
      [] method = "remove" -> Inst_remove(initialized, instFileSystem, outcome)

\* a caller invokes a method of the constructed instance
InstCall ==
    /\ instConstructed
    /\ opCount < MaxInstOps
    /\ \E method \in InstMethods, path \in MgrPaths, outcome \in PrimOutcomes :
         LET r == InstMethod(method, outcome)
         IN  lastOp' = [layer |-> "instance", op |-> method, path |-> path,
                        initialized |-> initialized, called |-> r.called,
                        outcome |-> IF r.called THEN outcome ELSE "none",
                        ok |-> r.ok, value |-> r.value, error |-> r.error]
    /\ opCount' = opCount + 1
    /\ UNCHANGED <<uiVars, storeVars, initVars, mgrVars, files, uploadQueue>>

AdapterNext == InitializationStep \/ EnvironmentStep \/ InstCall

AdapterSpec == InitAdapter /\ [][AdapterNext]_vars

----------------------------------------------------------------------------
(* Scheduling: a continuation whose promise has settled runs, and the timer *)
(* fires; the SDK's and the WebContainer's promises need never settle.      *)

Fairness ==
    /\ WF_vars(ModuleThen)
    /\ WF_vars(TimeoutFires)
    /\ WF_vars(ModuleReturnsInstance)
    /\ WF_vars(ModuleInitializeFailed)
    /\ WF_vars(ModuleCatch)
    /\ WF_vars(ModuleReturnsMock)
    /\ WF_vars(MgrCodesandboxRejected)
    /\ WF_vars(MgrCodesandboxMock)
    /\ WF_vars(MgrCodesandboxReal)
    /\ WF_vars(MgrHealthCheckSettles)
    /\ WF_vars(MgrWebcontainerResolved)
    /\ WF_vars(MgrWebcontainerRejected)

FairSpec == Spec /\ Fairness

----------------------------------------------------------------------------
(* Text search: strings.  A line is a sequence of one-code-unit strings; a   *)
(* file content is the sequence of its lines, i.e. content.split('\n'): the *)
(* content '' is the one empty line.                                        *)

\* "I^" stands for U+0130 (capital I with dot above) and "^" for U+0307 (combining dot
\* above): 'I^'.toLowerCase() is the two code units 'i' + '^'
DottedI == "I^"
CombiningDot == "^"

\* String.prototype.toLowerCase on one code unit
ToLowerChar(c) ==
    CASE c = "A" -> <<"a">>
      [] c = "B" -> <<"b">>
      [] c = DottedI -> <<"i", CombiningDot>>
      [] OTHER -> <<c>>

\* String.prototype.toLowerCase
RECURSIVE ToLowerCase(_)
ToLowerCase(str) ==
    IF str = <<>> THEN <<>> ELSE ToLowerChar(Head(str)) \o ToLowerCase(Tail(str))

\* the indices (0-based) at which `ok` holds, smallest first; -1 when there is none
FirstIndex(last, ok(_)) ==
    IF \E i \in 0..last : ok(i)
    THEN CHOOSE i \in 0..last : ok(i) /\ \A j \in 0..(i - 1) : ~ok(j)
    ELSE -1

\* String.prototype.indexOf
IndexOf(str, q) ==
    FirstIndex(Len(str) - Len(q), LAMBDA i : SubSeq(str, i + 1, i + Len(q)) = q)

\* Canonicalize of a regular expression with the i flag: the upper case of the code
\* unit when that is one code unit
Canonicalize(c) ==
    CASE c = "a" -> "A"
      [] c = "b" -> "B"
      [] c = "i" -> "I"
      [] OTHER -> c

\* \w of a regular expression
IsWordChar(c) == c \in {"a", "A", "b", "B", "i", "I"}

\* the assertion \b at position pos (between str[pos] and str[pos + 1], 1-based)
WordBoundary(str, pos) ==
    LET before == pos >= 1 /\ IsWordChar(str[pos])
        after == pos < Len(str) /\ IsWordChar(str[pos + 1])
    IN  before # after

\* one pattern character against one code unit: '.' is any code unit (a line holds no
\* line terminator), any other pattern character is itself
AtomMatches(atom, c, ignoreCase) ==
    \/ atom = "."
    \/ IF ignoreCase THEN Canonicalize(atom) = Canonicalize(c) ELSE atom = c

\* the quantifier of a regular expression: 'x?' is x once or not at all, once first
Optional == "?"

\* the backtracking matcher: the pattern, a sequence of pattern characters each of
\* which '?' may follow, is matched against str from index i (0-based) on; the index
\* at which the match ends, -1 when there is none.  With `word` the match has to end
\* at a word boundary.
RECURSIVE RegExpMatchEnd(_, _, _, _, _)
RegExpMatchEnd(str, atoms, i, ignoreCase, word) ==
    IF atoms = <<>>
    THEN IF word => WordBoundary(str, i) THEN i ELSE -1
    ELSE LET optional == Len(atoms) >= 2 /\ atoms[2] = Optional
             rest == SubSeq(atoms, IF optional THEN 3 ELSE 2, Len(atoms))
             once == IF i < Len(str) /\ AtomMatches(atoms[1], str[i + 1], ignoreCase)
                     THEN RegExpMatchEnd(str, rest, i + 1, ignoreCase, word)
                     ELSE -1
         IN  IF once # -1 THEN once
             ELSE IF optional THEN RegExpMatchEnd(str, rest, i, ignoreCase, word)
                  ELSE -1

\* the pattern matches str at index i (0-based)
MatchesAt(str, atoms, i, ignoreCase) ==
    RegExpMatchEnd(str, atoms, i, ignoreCase, FALSE) # -1

\* new RegExp(source, flags).exec(str): the index of the first match, -1 for null
RegExpExec(str, atoms, ignoreCase) ==
    FirstIndex(Len(str), LAMBDA i : MatchesAt(str, atoms, i, ignoreCase))

\* new RegExp(`\\b${source}\\b`, flags).exec(str)
WordRegExpExec(str, atoms, ignoreCase) ==
    FirstIndex(Len(str),
               LAMBDA i : /\ WordBoundary(str, i)
                          /\ RegExpMatchEnd(str, atoms, i, ignoreCase, TRUE) # -1)

\* a pattern given in the options: its alternatives ('a|b'), each a sequence of pattern
\* characters; no alternative stands for an option that is not set
NoPattern == <<>>

\* new RegExp(pattern).test(str)
RegExpTest(pattern, str) ==
    \E a \in 1..Len(pattern) : RegExpExec(str, pattern[a], FALSE) # -1

\* the lines and queries searched for
Lines ==
    { <<>>, <<"a", "b", "a">>, <<DottedI, "a">>, <<"a", " ", "b">> }
Queries == { <<"a">>, <<"A">>, <<"a", "b">>, <<"a", "b", Optional>> }

\* the contents of a file: one to MaxLines lines
FileTexts == SeqsUpTo(Lines, MaxLines) \ {<<>>}
EmptyContent == << <<>> >>

\* options.folders: a list of folders, or not given
Folders(list) == [given |-> TRUE, list |-> list]
NoFolders == [given |-> FALSE, list |-> <<>>]
\* ['/'], what handleSearch gives, and ['/', '/s']
RootFolders == << <<Slash>> >>
OverlappingFolders == << <<Slash>>, <<Slash, "s">> >>

\* options.maxResults: handleSearch gives 1000, scaled to the few lines of the model
ResultLimit == 1

\* a plain search without patterns
PlainOptions ==
    [ folders |-> Folders(RootFolders), includePattern |-> NoPattern,
      excludePattern |-> NoPattern, maxResults |-> ResultLimit,
      useRegExp |-> FALSE, wholeWord |-> FALSE, caseSensitive |-> FALSE ]

\* CodeSandboxSearchOptions as handleSearch and other callers give them
ExcludePatterns == { NoPattern, << <<"g">> >>, << <<"n">>, <<".", "x">> >> }
IncludePatterns == { NoPattern, << <<>> >>, << <<"s">> >> }
SearchOptions ==
    [ folders : {Folders(RootFolders)}, includePattern : IncludePatterns,
      excludePattern : ExcludePatterns, maxResults : {ResultLimit},
      useRegExp : BOOLEAN, wholeWord : BOOLEAN, caseSensitive : BOOLEAN ]
      \cup { [PlainOptions EXCEPT !.folders = f] :
                 f \in {NoFolders, Folders(OverlappingFolders)} }

\* the index reported for one line, -1 for no match (lines 409-453)
LineMatchIndex(line, query, options) ==
    \* lineQuery is the searchQuery of _searchInFile
    LET lineQuery == IF ~options.caseSensitive THEN ToLowerCase(query) ELSE query
        searchLine == IF ~options.caseSensitive THEN ToLowerCase(line) ELSE line
    IN  IF options.useRegExp
        THEN RegExpExec(searchLine, lineQuery, ~options.caseSensitive)
        ELSE IF options.wholeWord
             THEN WordRegExpExec(searchLine, lineQuery, ~options.caseSensitive)
             ELSE IndexOf(searchLine, lineQuery)

\* CodeSandboxSearchResult
SearchResult(path, lineNumber, line, matchIndex, query) ==
    [ path |-> path, lineNumber |-> lineNumber, previewText |-> line,
      matchCharStart |-> matchIndex, matchCharEnd |-> matchIndex + Len(query) ]

\* a loop over the lines that puts each match in front of those found before it
RECURSIVE FileMatches_NewestFirst(_, _, _, _, _)
FileMatches_NewestFirst(path, lines, lineNumber, query, options) ==
    IF lines = <<>> THEN <<>>
    ELSE LET matchIndex == LineMatchIndex(Head(lines), query, options)
             rest == FileMatches_NewestFirst(path, Tail(lines), lineNumber + 1, query,
                                             options)
         IN  IF matchIndex # -1
             THEN rest \o <<SearchResult(path, lineNumber, Head(lines), matchIndex, query)>>
             ELSE rest

\* the loop over the lines of one file, from line lineNumber on: fileMatches
RECURSIVE FileMatches(_, _, _, _, _)
FileMatches(path, lines, lineNumber, query, options) ==
    IF lines = <<>> THEN <<>>
    ELSE LET matchIndex == LineMatchIndex(Head(lines), query, options)
             rest == FileMatches(path, Tail(lines), lineNumber + 1, query, options)
         IN  IF matchIndex # -1
             THEN <<SearchResult(path, lineNumber, Head(lines), matchIndex, query)>> \o rest
             ELSE rest

----------------------------------------------------------------------------
(* Text search: CodeSandboxInstance.textSearch walks the remote file system *)

\* the remote tree that is walked: '/' holds the directory s, which holds the file x,
\* and then the file g; the content of g is an input, that of x is fixed
GPath == <<Slash, "g">>
SDir == <<Slash, "s">>
SXPath == <<Slash, "s", Slash, "x">>
SXText == << <<"b", "A">>, <<"a">> >>

TreeEntries(path) ==
    CASE path = <<Slash>> -> << <<"s">>, <<"g">> >>
      [] path = SDir -> << <<"x">> >>
      [] OTHER -> <<>>

TreeIsDirectory(path) == path \in {<<Slash>>, SDir}
TreeIsFile(path) == path \in {GPath, SXPath}
TreeContent(path, text) == IF path = GPath THEN text ELSE SXText

\* a primitive of the remote file system that rejects, or none
NoFault == [method |-> "none", path |-> <<>>]
Faults ==
    { NoFault, [method |-> "readdir", path |-> SDir], [method |-> "stat", path |-> SDir],
      [method |-> "readFile", path |-> SXPath], [method |-> "stat", path |-> GPath],
      [method |-> "readFile", path |-> GPath] }
Faulty(fault, method, path) == fault = [method |-> method, path |-> path]

\* .replace(/\/+/g, '/')
RECURSIVE CollapseSlashes(_)
CollapseSlashes(str) ==
    IF Len(str) < 2 THEN str
    ELSE IF str[1] = Slash /\ str[2] = Slash THEN CollapseSlashes(Tail(str))
         ELSE <<Head(str)>> \o CollapseSlashes(Tail(str))

\* what a search does, in order: the calls it makes on the adapter methods, their
\* settlements, and the invocations of progressCallback
SearchCall(method, path) ==
    [kind |-> "call", method |-> method, path |-> path, matches |-> <<>>]
SearchSettled(method, path) ==
    [kind |-> "settled", method |-> method, path |-> path, matches |-> <<>>]
\* `await this.method(path)`: the walk goes on when the call has settled
Awaited(method, path) == <<SearchCall(method, path), SearchSettled(method, path)>>
SearchBatch(path, matches) ==
    [kind |-> "batch", method |-> "progressCallback", path |-> path, matches |-> matches]

\* a scan that invokes progressCallback for each match as it is found
SearchInFile_PerMatch(filePath, query, options, text, fault) ==
    LET fileMatches == FileMatches(filePath, TreeContent(filePath, text), 1, query, options)
    IN  Awaited("readFile", filePath)
          \o [k \in 1..Len(fileMatches) |-> SearchBatch(filePath, <<fileMatches[k]>>)]

SearchInFile(filePath, query, options, text, fault) ==
    IF options.excludePattern # NoPattern /\ RegExpTest(options.excludePattern, filePath)
    THEN <<>>
    ELSE IF options.includePattern # NoPattern
             /\ ~RegExpTest(options.includePattern, filePath)
         THEN <<>>
         ELSE LET content == IF Faulty(fault, "readFile", filePath)
                             THEN EmptyContent
                             ELSE TreeContent(filePath, text)
                  fileMatches == FileMatches(filePath, content, 1, query, options)
              IN  Awaited("readFile", filePath)
                    \o (IF content # EmptyContent /\ fileMatches # <<>>
                        THEN <<SearchBatch(filePath, fileMatches)>>
                        ELSE <<>>)

RECURSIVE SearchInFolder(_, _, _, _, _)
RECURSIVE SearchEntries(_, _, _, _, _, _)
\* a loop over the entries that asks for the stat of every entry at once and goes
\* into the entries when all have settled
SearchEntries_FanOut(folderPath, entries, query, options, text, fault) ==
    LET fullPath(k) == CollapseSlashes(folderPath \o <<Slash>> \o entries[k])
        statThrows(k) == Faulty(fault, "stat", fullPath(k))
                           \/ ~(TreeIsDirectory(fullPath(k)) \/ TreeIsFile(fullPath(k)))
        inside(k) == IF statThrows(k) THEN <<>>
                     ELSE IF TreeIsDirectory(fullPath(k))
                          THEN SearchInFolder(fullPath(k), query, options, text, fault)
                          ELSE SearchInFile(fullPath(k), query, options, text, fault)
        RECURSIVE Explore(_)
        Explore(k) == IF k > Len(entries) THEN <<>> ELSE inside(k) \o Explore(k + 1)
    IN  [k \in 1..Len(entries) |-> SearchCall("stat", fullPath(k))]
          \o [k \in 1..Len(entries) |-> SearchSettled("stat", fullPath(k))]
          \o Explore(1)

\* a loop over the entries that an entry which cannot be accessed ends
SearchEntries_StopsAtFailure(folderPath, entries, query, options, text, fault) ==
    IF entries = <<>> THEN <<>>
    ELSE LET fullPath == CollapseSlashes(folderPath \o <<Slash>> \o Head(entries))
             statThrows == Faulty(fault, "stat", fullPath)
                             \/ ~(TreeIsDirectory(fullPath) \/ TreeIsFile(fullPath))
             inside == IF TreeIsDirectory(fullPath)
                       THEN SearchInFolder(fullPath, query, options, text, fault)
                       ELSE SearchInFile(fullPath, query, options, text, fault)
         IN  IF statThrows THEN Awaited("stat", fullPath)
             ELSE Awaited("stat", fullPath) \o inside
                    \o SearchEntries(folderPath, Tail(entries), query, options, text, fault)

\* the loop over the entries of one folder
SearchEntries(folderPath, entries, query, options, text, fault) ==
    IF entries = <<>> THEN <<>>
    ELSE LET fullPath == CollapseSlashes(folderPath \o <<Slash>> \o Head(entries))
             statThrows == Faulty(fault, "stat", fullPath)
                             \/ ~(TreeIsDirectory(fullPath) \/ TreeIsFile(fullPath))
             inside == IF statThrows THEN <<>>
                       ELSE IF TreeIsDirectory(fullPath)
                            THEN SearchInFolder(fullPath, query, options, text, fault)
                            ELSE SearchInFile(fullPath, query, options, text, fault)
         IN  Awaited("stat", fullPath) \o inside
               \o SearchEntries(folderPath, Tail(entries), query, options, text, fault)

SearchInFolder(folderPath, query, options, text, fault) ==
    LET entries == IF Faulty(fault, "readdir", folderPath)
                   THEN <<>>
                   ELSE TreeEntries(folderPath)
    IN  Awaited("readdir", folderPath)
          \o SearchEntries(folderPath, entries, query, options, text, fault)

SearchReturned(events) == [ok |-> TRUE, error |-> NoError, events |-> events]
SearchThrown(error) == [ok |-> FALSE, error |-> error, events |-> <<>>]

\* the loop over searchFolders
RECURSIVE SearchFolders(_, _, _, _, _)
SearchFolders(searchFolders, query, options, text, fault) ==
    IF searchFolders = <<>> THEN <<>>
    ELSE SearchInFolder(Head(searchFolders), query, options, text, fault)
           \o SearchFolders(Tail(searchFolders), query, options, text, fault)

\* CodeSandboxInstance.textSearch
Inst_textSearch(init, handle, query, options, text, fault) ==
    IF InstGuardFails(init, handle)
    THEN SearchThrown(ErrNotInitialized)
    ELSE LET searchFolders == IF options.folders.given THEN options.folders.list
                              ELSE RootFolders
         IN  SearchReturned(SearchFolders(searchFolders, query, options, text, fault))

----------------------------------------------------------------------------
(* Text search: MockCodeSandboxInstance.textSearch over its own files *)

\* _mockFiles, in Map order, each content abridged to a few lines
MockFiles ==
    << [path |-> PackageJson, lines |-> << <<"a", "b">> >>],
       [path |-> ReadmeMd, lines |-> << <<"b", "A">>, <<>>, <<"a">> >>],
       [path |-> SrcAppTsx, lines |-> << <<"a", " ", "b">>, <<"A">> >>] >>

\* the mock looks for the query with indexOf whatever useRegExp and wholeWord are, and
\* looks at no pattern
RECURSIVE MockBatches(_, _, _)
MockBatches(mockFiles, query, options) ==
    IF mockFiles = <<>> THEN <<>>
    ELSE LET file == Head(mockFiles)
             plain == [options EXCEPT !.useRegExp = FALSE, !.wholeWord = FALSE]
             fileResults == FileMatches(file.path, file.lines, 1, query, plain)
         IN  (IF fileResults # <<>> THEN <<SearchBatch(file.path, fileResults)>> ELSE <<>>)
               \o MockBatches(Tail(mockFiles), query, options)

Mock_textSearch(query, options) == SearchReturned(MockBatches(MockFiles, query, options))

----------------------------------------------------------------------------
(* Searches issued on the instance that `codesandbox` resolved to.  The     *)
(* real instance is taken after an initialize() that returned, its          *)
(* _fileSystem drawn as in AdapterSpec; the mock after one that timed out.  *)
(* A search keeps nothing from one call to the next (`results` is local to  *)
(* textSearch), so a behaviour runs one search.                             *)

InitSearch ==
    /\ ssr = FALSE
    /\ apiKey = TRUE
    /\ codesandbox \in {"real", "mock"}
    /\ modPc = "done"
    /\ instConstructed = TRUE
    /\ mockConstructed = IF codesandbox = "mock" THEN 1 ELSE 0
    /\ initialized = (codesandbox = "real")
    /\ instError = IF codesandbox = "mock" THEN ErrTimeout ELSE NoError
    /\ instSandboxId = IF codesandbox = "real" THEN SandboxId ELSE ""
    /\ instFileSystem \in IF codesandbox = "real" THEN {NoHandle, Handle} ELSE {NoHandle}
    /\ instPc = IF codesandbox = "real" THEN "returned" ELSE "thrown"
    /\ sandboxPromise = IF codesandbox = "real" THEN "resolved" ELSE "pending"
    /\ timeoutPromise = IF codesandbox = "real" THEN "pending" ELSE "rejected"
    /\ race = IF codesandbox = "real" THEN "sandbox" ELSE "timeout"
    /\ connectPromise = IF codesandbox = "real" THEN "resolved" ELSE "none"
    /\ createCalls = 1
    /\ connectCalls = IF codesandbox = "real" THEN 1 ELSE 0
    /\ codesandboxContext =
         IF codesandbox = "real"
         THEN [loaded |-> TRUE, sandboxId |-> SandboxId, error |-> "undefined"]
         ELSE [loaded |-> FALSE, sandboxId |-> "undefined", error |-> ErrTimeout]
    /\ webcontainer = "pending"
    /\ mgrPc = "awaitCodesandbox"
    /\ provider = "local"
    /\ isReady = FALSE
    /\ mgrError = "undefined"
    /\ mgrFileSystem = "local#0"
    /\ wcTried = FALSE
    /\ files = SeedFiles
    /\ lastOp = NoOp
    /\ opCount = 0
    /\ uploadQueue = NoUpload
    /\ SearchMounted
    /\ StoreConstructed

SearchRecord(op, query, options, text, fault, r) ==
    [layer |-> "search", op |-> op, query |-> query, options |-> options, text |-> text,
     fault |-> fault, ok |-> r.ok, error |-> r.error, events |-> r.events]

\* a caller runs textSearch on the real instance; the remote files and the primitive
\* that fails are inputs where there is a remote file system
InstTextSearch ==
    /\ codesandbox = "real"
    /\ opCount = 0
    /\ \E query \in Queries, options \in SearchOptions,
          text \in IF instFileSystem = Handle THEN FileTexts ELSE {EmptyContent},
          fault \in IF instFileSystem = Handle THEN Faults ELSE {NoFault} :
         lastOp' = SearchRecord("textSearch", query, options, text, fault,
                                Inst_textSearch(initialized, instFileSystem, query,
                                                options, text, fault))
    /\ opCount' = opCount + 1
    /\ UNCHANGED <<uiVars, storeVars, initVars, mgrVars, files, uploadQueue>>

\* a caller runs textSearch on the mock instance
MockTextSearch ==
    /\ codesandbox = "mock"
    /\ opCount = 0
    /\ \E query \in Queries, options \in SearchOptions :
         lastOp' = SearchRecord("mockTextSearch", query, options, EmptyContent, NoFault,
                                Mock_textSearch(query, options))
    /\ opCount' = opCount + 1
    /\ UNCHANGED <<uiVars, storeVars, initVars, mgrVars, files, uploadQueue>>

\* a caller runs textSearch on the real instance and, when the walk has done its
\* first abortedAfter events, wants it stopped.  textSearch takes the query, the
\* options and the callback: the caller has nothing through which to say so, and the
\* walk is the one of InstTextSearch.
InstTextSearchAborted ==
    /\ codesandbox = "real"
    /\ instFileSystem = Handle
    /\ opCount = 0
    /\ \E query \in Queries, text \in FileTexts :
         LET r == Inst_textSearch(initialized, instFileSystem, query, PlainOptions, text,
                                  NoFault)
         IN  \E abortedAfter \in 0..Len(r.events) :
                lastOp' = [layer |-> "search", op |-> "textSearchAborted",
                           query |-> query, options |-> PlainOptions, text |-> text,
                           fault |-> NoFault, ok |-> r.ok, error |-> r.error,
                           events |-> r.events, abortedAfter |-> abortedAfter]
    /\ opCount' = opCount + 1
    /\ UNCHANGED <<uiVars, storeVars, initVars, mgrVars, files, uploadQueue>>

SearchNext == InstTextSearch \/ MockTextSearch \/ InstTextSearchAborted

SearchSpec == InitSearch /\ [][SearchNext]_vars

----------------------------------------------------------------------------
(* Search component (unnamed/part_000): performWebContainerSearch turns the *)
(* matches that the WebContainer's own textSearch reports into DisplayMatch *)
(* records.                                                                 *)

\* ranges in one provider match, and provider matches in one provider callback
MaxRanges == 2
MaxApiMatches == 2

\* the line terminator, one character of a preview text
LineFeed == "LF"

\* text.split('\n')
RECURSIVE SplitLines(_, _)
SplitLines(str, cur) ==
    IF str = <<>> THEN <<cur>>
    ELSE IF Head(str) = LineFeed
         THEN <<cur>> \o SplitLines(Tail(str), <<>>)
         ELSE SplitLines(Tail(str), Append(cur, Head(str)))

\* what the provider hands to the callback: previews, each a text with the ranges of
\* the preview (the first declares the line the preview starts at), and ranges found
PreviewText == <<"a", LineFeed, "b">>
Previews ==
    { [text |-> PreviewText, matches |-> <<>>],
      [text |-> PreviewText, matches |-> <<[startLineNumber |-> 1]>>],
      [text |-> PreviewText, matches |-> <<[startLineNumber |-> 2]>>],
      [text |-> <<>>, matches |-> <<[startLineNumber |-> 1]>>] }
ApiRanges ==
    { [startLineNumber |-> 1, startColumn |-> 0, endColumn |-> 1],
      [startLineNumber |-> 2, startColumn |-> 1, endColumn |-> 2] }
ApiMatches ==
    [ preview : Previews, ranges : SeqsUpTo(ApiRanges, MaxRanges) ]

DisplayMatch(path, lineNumber, previewText, matchCharStart, matchCharEnd) ==
    [ path |-> path, lineNumber |-> lineNumber, previewText |-> previewText,
      matchCharStart |-> matchCharStart, matchCharEnd |-> matchCharEnd ]

\* a variant that takes range.startLineNumber for an index into the preview
PreviewLineText_Absolute(apiMatch, range) ==
    LET previewLines == SplitLines(apiMatch.preview.text, <<>>)
        lineIndexInPreview == range.startLineNumber
    IN  IF lineIndexInPreview >= 0 /\ lineIndexInPreview < Len(previewLines)
        THEN previewLines[lineIndexInPreview + 1]
        ELSE previewLines[1]

\* previewLineText for one range of one provider match
PreviewLineText(apiMatch, range) ==
    LET previewLines == SplitLines(apiMatch.preview.text, <<>>)
        lineIndexInPreview ==
            IF Len(apiMatch.preview.matches) > 0
            THEN range.startLineNumber - apiMatch.preview.matches[1].startLineNumber
            ELSE -1
    IN  IF lineIndexInPreview >= 0 /\ lineIndexInPreview < Len(previewLines)
        THEN previewLines[lineIndexInPreview + 1]
        ELSE previewLines[1]

\* apiMatch.ranges.forEach
RangeMatches(filePath, apiMatch) ==
    [ k \in 1..Len(apiMatch.ranges) |->
        DisplayMatch(filePath, apiMatch.ranges[k].startLineNumber,
                     PreviewLineText(apiMatch, apiMatch.ranges[k]),
                     apiMatch.ranges[k].startColumn, apiMatch.ranges[k].endColumn) ]

\* apiMatches.forEach: displayMatches
RECURSIVE DisplayMatches(_, _)
DisplayMatches(filePath, apiMatches) ==
    IF apiMatches = <<>> THEN <<>>
    ELSE RangeMatches(filePath, Head(apiMatches))
           \o DisplayMatches(filePath, Tail(apiMatches))

\* progressCallback of performWebContainerSearch: the calls of onProgress it makes
NativeProgressCallback(filePath, apiMatches) ==
    LET displayMatches == DisplayMatches(filePath, apiMatches)
    IN  IF Len(displayMatches) > 0 THEN <<displayMatches>> ELSE <<>>

\* the WebContainer's textSearch invokes the callback that performWebContainerSearch
\* gave it
ProviderProgress ==
    /\ webcontainer = "resolved"
    /\ opCount = 0
    /\ \E apiMatches \in SeqsUpTo(ApiMatches, MaxApiMatches) :
         lastOp' = [layer |-> "native", op |-> "progressCallback", filePath |-> GPath,
                    apiMatches |-> apiMatches,
                    forwarded |-> NativeProgressCallback(GPath, apiMatches)]
    /\ opCount' = opCount + 1
    /\ UNCHANGED <<uiVars, storeVars, initVars, mgrVars, files, uploadQueue>>

NativeNext == WebcontainerResolves \/ ProviderProgress

NativeSpec == InitLocal /\ [][NativeNext]_vars

----------------------------------------------------------------------------
(* Search component (unnamed/part_000): its state, checkProviders(), the    *)
(* debounced handleSearch and the searches it runs.  The user types and     *)
(* clicks; timers and promises fire in any order that their delays allow.   *)
(* The component runs in the browser on the instance that `codesandbox`     *)
(* settled to (see InitSearch) or on the rejected promise of a page without *)
(* API key.                                                                 *)

\* what the user does to the component in one behaviour: keystrokes and clicks
MaxUiInputs == 2

SearchProviders == {"webcontainer", "codesandbox"}

\* what the user types into the input: nothing, a term that files hold, one that
\* no file holds
UiQueries == { <<>>, <<"a">>, <<"z">> }

\* !query.trim()
IsBlank(query) == \A k \in 1..Len(query) : query[k] = " "

\* the options that handleSearch gives to performCodeSandboxSearch; the pattern that
\* matches every path stands for '.*', and n|.x for 'node_modules|.git'
HandleSearchOptions ==
    [ folders |-> Folders(RootFolders), includePattern |-> << <<>> >>,
      excludePattern |-> << <<"n">>, <<".", "x">> >>, maxResults |-> ResultLimit,
      useRegExp |-> FALSE, wholeWord |-> FALSE, caseSensitive |-> FALSE ]

\* the content of the remote file '/g' while the component is used
UiRemoteText == << <<"a", " ", "b">> >>

\* what the WebContainer's textSearch hands to its callback when it finds something
UiApiMatch ==
    [ preview |-> [text |-> PreviewText, matches |-> <<[startLineNumber |-> 1]>>],
      ranges |-> <<[startLineNumber |-> 1, startColumn |-> 0, endColumn |-> 1]>> ]

\* the effect of [providerStatus]: WebContainer when it is ready, else CodeSandbox
\* when it is ready, else no change
AutoSelect(status, current) ==
    IF status.webcontainer = "ready" THEN "webcontainer"
    ELSE IF status.codesandbox = "ready" THEN "codesandbox"
    ELSE current

\* the effect of [searchQuery, debouncedSearch] when searchProvider becomes `next`: a
\* new searchProvider makes a new handleSearch and a new debounced function, which is
\* called with searchQuery; the timer of the old one is not cleared
Redebounce(next) ==
    IF next = searchProvider THEN debounced
    ELSE [ current |-> <<searchQuery>>,
           stale |-> debounced.stale
                       \o [k \in 1..Len(debounced.current) |->
                             [provider |-> searchProvider, query |-> debounced.current[k]]] ]

\* checkProviders(): `await webcontainer` has settled
CheckWebcontainer ==
    /\ checkPc = "awaitWebcontainer"
    /\ webcontainer # "pending"
    /\ LET status == [providerStatus EXCEPT
                        !.webcontainer = IF webcontainer = "resolved" THEN "ready"
                                         ELSE "error"]
           next == AutoSelect(status, searchProvider)
       IN  /\ providerStatus' = status
           /\ searchProvider' = next
           /\ debounced' = Redebounce(next)
    /\ checkPc' = "awaitCodesandbox"
    /\ UNCHANGED <<initVars, mgrVars, opVars, storeVars, searchQuery, searchResults, isSearching,
                   hasSearched, runs, timers, uiInputs>>

\* healthCheck() of the mock: the inherited method on an object whose _initialized
\* is never set
Mock_healthCheck == Inst_healthCheck(FALSE, NoHandle, "resolve").value.flag

\* isLoaded() of the instance that `codesandbox` resolved to
IsLoaded ==
    IF codesandbox = "mock" THEN TRUE ELSE initialized /\ codesandboxContext.loaded

\* checkProviders(): `await codesandbox` and `await csb.healthCheck()` have settled
CheckCodesandbox ==
    /\ checkPc = "awaitCodesandbox"
    /\ codesandbox # "pending"
    /\ \E outcome \in PrimOutcomes :
         LET isHealthy ==
                 /\ codesandbox # "rejected"
                 /\ IF codesandbox = "mock" THEN Mock_healthCheck
                    ELSE Inst_healthCheck(initialized, instFileSystem, outcome).value.flag
             status == [providerStatus EXCEPT
                          !.codesandbox = IF isHealthy THEN "ready" ELSE "error"]
             next == AutoSelect(status, searchProvider)
         IN  /\ providerStatus' = status
             /\ searchProvider' = next
             /\ debounced' = Redebounce(next)
    /\ checkPc' = "done"
    /\ UNCHANGED <<initVars, mgrVars, opVars, storeVars, searchQuery, searchResults, isSearching,
                   hasSearched, runs, timers, uiInputs>>

\* onChange of the input: setSearchQuery, and the effect calls debouncedSearch
TypeQuery ==
    /\ uiInputs < MaxUiInputs
    /\ \E q \in UiQueries \ {searchQuery} :
         /\ searchQuery' = q
         /\ debounced' = [debounced EXCEPT !.current = <<q>>]
    /\ uiInputs' = uiInputs + 1
    /\ UNCHANGED <<initVars, mgrVars, opVars, storeVars, searchResults, isSearching, hasSearched,
                   searchProvider, providerStatus, checkPc, runs, timers>>

\* handleProviderChange, from a button that is not disabled
ClickProvider ==
    /\ uiInputs < MaxUiInputs
    /\ \E p \in SearchProviders :
         /\ providerStatus[p] # "error"
         /\ searchProvider' = p
         /\ debounced' = Redebounce(p)
    /\ searchResults' = <<>>
    /\ hasSearched' = FALSE
    /\ uiInputs' = uiInputs + 1
    /\ UNCHANGED <<initVars, mgrVars, opVars, storeVars, searchQuery, isSearching, providerStatus,
                   checkPc, runs, timers>>

\* one call of handleSearch: the provider its closure holds, its query, where it is,
\* the batches its search has still to hand over, and how its provider failed
Run(ofProvider, query, pc, batches, failure) ==
    [provider |-> ofProvider, query |-> query, pc |-> pc, batches |-> batches,
     failure |-> failure]

\* handleSearch up to its first await
HandleSearchStarts(ofProvider, query) ==
    IF IsBlank(query)
    THEN /\ searchResults' = <<>>
         /\ isSearching' = FALSE
         /\ hasSearched' = FALSE
         /\ runs' = runs
    ELSE /\ isSearching' = TRUE
         /\ searchResults' = <<>>
         /\ hasSearched' = TRUE
         /\ runs' = Append(runs, Run(ofProvider, query, "awaitInstance", <<>>, "none"))

\* the timer of the current debounced function fires; timers set earlier (those of
\* older debounced functions) have fired before
DebounceFires ==
    /\ debounced.current # <<>>
    /\ debounced.stale = <<>>
    /\ HandleSearchStarts(searchProvider, debounced.current[1])
    /\ debounced' = [debounced EXCEPT !.current = <<>>]
    /\ UNCHANGED <<initVars, mgrVars, opVars, storeVars, searchQuery, searchProvider, providerStatus,
                   checkPc, timers, uiInputs>>

\* the timer of an older debounced function fires: the handleSearch of an earlier
\* render runs, with the provider of that render
StaleDebounceFires ==
    /\ debounced.stale # <<>>
    /\ HandleSearchStarts(debounced.stale[1].provider, debounced.stale[1].query)
    /\ debounced' = [debounced EXCEPT !.stale = Tail(debounced.stale)]
    /\ UNCHANGED <<initVars, mgrVars, opVars, storeVars, searchQuery, searchProvider, providerStatus,
                   checkPc, timers, uiInputs>>

SearchOutcome(batches, failure) == [batches |-> batches, failure |-> failure]

\* the callback of performCodeSandboxSearch: one call of onProgress for each batch
DisplayBatches(events) ==
    LET batches == SelectSeq(events, LAMBDA e : e.kind = "batch" /\ Len(e.matches) > 0)
    IN  [n \in 1..Len(batches) |->
           [k \in 1..Len(batches[n].matches) |->
              DisplayMatch(batches[n].path, batches[n].matches[k].lineNumber,
                           batches[n].matches[k].previewText,
                           batches[n].matches[k].matchCharStart,
                           batches[n].matches[k].matchCharEnd)]]

\* `await webcontainer` and performWebContainerSearch: what the search hands to
\* progressHandler, and how it failed.  What the WebContainer finds is its own affair.
WebcontainerSearch(query) ==
    IF webcontainer = "rejected" THEN {SearchOutcome(<<>>, "rejected")}
    ELSE { SearchOutcome(<<>>, "threw"), SearchOutcome(<<>>, "none"),
           SearchOutcome(NativeProgressCallback(GPath, <<UiApiMatch>>), "none") }

\* performCodeSandboxSearch from its call of instance.textSearch on: what reaches
\* progressHandler, or the failure that handleSearch catches
SearchOutcomeOf(r) ==
    IF ~r.ok THEN SearchOutcome(<<>>, "threw")
    ELSE SearchOutcome(DisplayBatches(r.events), "none")

\* the searches of performCodeSandboxSearch, for each state of the instance and each
\* query that handleSearch lets through
InstSearches ==
    { [ initialized |-> i, fileSystem |-> h, query |-> q,
        outcome |-> SearchOutcomeOf(Inst_textSearch(i, h, q, HandleSearchOptions,
                                                    UiRemoteText, NoFault)) ] :
      i \in BOOLEAN, h \in {NoHandle, Handle}, q \in {u \in UiQueries : ~IsBlank(u)} }

MockSearches ==
    { [ query |-> q, outcome |-> SearchOutcomeOf(Mock_textSearch(q, HandleSearchOptions)) ] :
      q \in {u \in UiQueries : ~IsBlank(u)} }

\* `await codesandbox`, the isLoaded() of handleSearch, and performCodeSandboxSearch
CodesandboxSearch(query) ==
    IF codesandbox = "rejected" THEN {SearchOutcome(<<>>, "rejected")}
    ELSE IF ~IsLoaded THEN {SearchOutcome(<<>>, "notLoaded")}
    ELSE LET isHealthy(outcome) ==
                 IF codesandbox = "mock" THEN Mock_healthCheck
                 ELSE Inst_healthCheck(initialized, instFileSystem, outcome).value.flag
         IN  { IF ~isHealthy(outcome) THEN SearchOutcome(<<>>, "unhealthy")
               ELSE IF codesandbox = "mock"
               THEN (CHOOSE s \in MockSearches : s.query = query).outcome
               ELSE (CHOOSE s \in InstSearches :
                        /\ s.initialized = initialized
                        /\ s.fileSystem = instFileSystem
                        /\ s.query = query).outcome :
               outcome \in PrimOutcomes }

\* a call of handleSearch gets past `await webcontainer` / `await codesandbox` and
\* reaches the search of its provider
RunAwaits ==
    /\ \E i \in 1..Len(runs) :
         /\ runs[i].pc = "awaitInstance"
         /\ IF runs[i].provider = "webcontainer" THEN webcontainer # "pending"
            ELSE codesandbox # "pending"
         /\ \E o \in IF runs[i].provider = "webcontainer"
                      THEN WebcontainerSearch(runs[i].query)
                      ELSE CodesandboxSearch(runs[i].query) :
               runs' = [runs EXCEPT ![i] = Run(@.provider, @.query, "searching",
                                               o.batches, o.failure)]
    /\ UNCHANGED <<initVars, mgrVars, opVars, storeVars, searchQuery, searchResults, isSearching,
                   hasSearched, searchProvider, providerStatus, checkPc, debounced,
                   timers, uiInputs>>

\* progressHandler: a search hands over its next batch
RunDelivers ==
    /\ \E i \in 1..Len(runs) :
         /\ runs[i].pc = "searching"
         /\ runs[i].batches # <<>>
         /\ searchResults' = searchResults \o Head(runs[i].batches)
         /\ runs' = [runs EXCEPT ![i].batches = Tail(@)]
    /\ UNCHANGED <<initVars, mgrVars, opVars, storeVars, searchQuery, isSearching, hasSearched,
                   searchProvider, providerStatus, checkPc, debounced, timers, uiInputs>>

\* the finally of handleSearch: setIsSearching(false) at once when minLoaderTime has
\* passed, by a timer otherwise
RunFinishes ==
    /\ \E i \in 1..Len(runs) :
         /\ runs[i].pc = "searching"
         /\ runs[i].batches = <<>>
         /\ runs' = [runs EXCEPT ![i].pc = "done"]
    /\ \E elapsedBelowMinLoaderTime \in BOOLEAN :
         IF elapsedBelowMinLoaderTime
         THEN timers' = timers + 1 /\ UNCHANGED isSearching
         ELSE isSearching' = FALSE /\ UNCHANGED timers
    /\ UNCHANGED <<initVars, mgrVars, opVars, storeVars, searchQuery, searchResults, hasSearched,
                   searchProvider, providerStatus, checkPc, debounced, uiInputs>>

\* setTimeout(() => setIsSearching(false), minLoaderTime - elapsed) fires
LoaderTimerFires ==
    /\ timers > 0
    /\ isSearching' = FALSE
    /\ timers' = timers - 1
    /\ UNCHANGED <<initVars, mgrVars, opVars, storeVars, searchQuery, searchResults, hasSearched,
                   searchProvider, providerStatus, checkPc, debounced, runs, uiInputs>>

UiNext ==
    \/ WebcontainerResolves
    \/ WebcontainerRejects
    \/ CheckWebcontainer
    \/ CheckCodesandbox
    \/ TypeQuery
    \/ ClickProvider
    \/ DebounceFires
    \/ StaleDebounceFires
    \/ RunAwaits
    \/ RunDelivers
    \/ RunFinishes
    \/ LoaderTimerFires

InitUi == InitSearch \/ InitLocal

UiSpec == InitUi /\ [][UiNext]_vars

\* what the browser does by itself: timers fire and settled promises resume what
\* awaits them
UiStep ==
    \/ CheckWebcontainer
    \/ CheckCodesandbox
    \/ DebounceFires
    \/ StaleDebounceFires
    \/ RunAwaits
    \/ RunDelivers
    \/ RunFinishes
    \/ LoaderTimerFires

\* the browser does not stop while it has something to do; the WebContainer need not
\* boot and the user need not do anything
UiFairness == WF_vars(UiStep)

FairUiSpec == UiSpec /\ UiFairness

----------------------------------------------------------------------------
(* Claims *)

\* C1: whatever the providers do (succeed, fail, never settle), initialization
\* eventually reaches isReady = true with a named provider.  Stated for the browser
\* build, where the promise chain runs.
C1_EventuallyReady == (~ssr) => <>(isReady /\ provider \in Providers)

\* C2: when CodeSandboxInstance.initialize() failed with a credential supplied and the
\* WebContainer attempt succeeds, the provider after initialization is webcontainer.
C2_FailedRemoteFallsBackToWebcontainer ==
    (apiKey /\ instPc = "thrown" /\ webcontainer = "resolved" /\ isReady)
        => provider = "webcontainer"

\* C3: when the remote attempt succeeded (sandbox created, connect resolved) the
\* manager is ready with provider codesandbox and WebContainer was never tried.
C3_RemoteSuccessSelectsCodesandbox ==
    (instPc = "returned" /\ isReady) => (provider = "codesandbox" /\ ~wcTried)

\* C4: without a credential no instance is constructed and no create or connect call
\* is made; the manager never awaits a health check, its next attempt is WebContainer,
\* and it ends on local only when that attempt failed.
C4_NoCredentialSkipsRemote ==
    ~apiKey =>
        /\ ~instConstructed /\ mockConstructed = 0
        /\ createCalls = 0 /\ connectCalls = 0
        /\ mgrPc \in {"awaitCodesandbox", "awaitWebcontainer", "done"}
        /\ (mgrPc = "awaitCodesandbox" /\ ~ssr) => codesandbox = "rejected"
        /\ (mgrPc # "awaitCodesandbox") => wcTried
        /\ isReady => \/ provider = "webcontainer" /\ webcontainer = "resolved"
                      \/ provider = "local" /\ webcontainer = "rejected"

C4_Witness == ~apiKey /\ isReady /\ provider = "local" /\ wcTried

\* C5: once the manager is ready, no step (in particular no operation, failed or not)
\* changes provider, isReady or the active adapter.
C5_ReadyIsStable ==
    [][isReady => /\ isReady'
                  /\ provider' = provider
                  /\ mgrFileSystem' = mgrFileSystem]_vars

C5_Witness ==
    /\ isReady
    /\ lastOp.layer = "manager"
    /\ lastOp.ready
    /\ ~lastOp.ok
    /\ opCount = MaxOps

\* C6 as claimed: the provider field never moves to a higher-priority provider.
C6_ProviderOnlyMovesDown == [][Rank(provider') >= Rank(provider)]_vars

\* C6 amended: the only move to a higher-priority provider is the replacement of the
\* not-ready default 'local' in the step that makes the manager ready; once ready the
\* provider never moves up.
C6_MovesUpOnlyFromDefault ==
    [][Rank(provider') < Rank(provider)
          => (~isReady /\ provider = "local" /\ isReady')]_vars

C6_Witness == isReady /\ provider = "webcontainer" /\ opCount > 0

\* C7: healthCheck() makes exactly one call on the active adapter, readdir('/'), when
\* the manager is ready and none otherwise; it returns true iff the manager is ready
\* and that call succeeded; it changes neither provider, isReady, the adapter nor the
\* stored files.
C7_HealthCheckFrame ==
    [][(opCount' = opCount + 1 /\ uploadQueue' = uploadQueue
          /\ lastOp'.op = "healthCheck") =>
          /\ provider' = provider
          /\ isReady' = isReady
          /\ mgrFileSystem' = mgrFileSystem
          /\ files' = files
          /\ mgrPc' = mgrPc
          /\ lastOp'.calls = IF isReady
                             THEN <<[method |-> "readdir", path |-> <<Slash>>]>>
                             ELSE <<>>
          /\ lastOp'.value = Flag(isReady /\ lastOp'.callOk)
          /\ lastOp'.ok]_vars

C7_Witness ==
    /\ lastOp.op = "healthCheck"
    /\ lastOp.ready
    /\ lastOp.value = Flag(FALSE)
    /\ isReady

C9_RaceLoserDiscarded ==
    [][/\ (race = "pending" /\ race' = "timeout")
            => (instPc' = "thrown" /\ instError' = ErrTimeout /\ ~initialized'
                /\ connectCalls' = 0)
       /\ (race = "pending" /\ race' = "sandboxError")
            => (instPc' = "thrown" /\ ~initialized' /\ connectCalls' = 0)
       /\ (race = "pending" /\ race' = "sandbox")
            => (instPc' = "awaitConnect" /\ connectCalls' = 1)
       /\ (race \in {"timeout", "sandboxError", "sandbox"}) => race' = race
       /\ (race = "timeout") => (instPc' = "thrown" /\ ~initialized')
       /\ (race \in {"timeout", "sandboxError", "sandbox"}
             /\ (sandboxPromise' # sandboxPromise \/ timeoutPromise' # timeoutPromise))
            => /\ initialized' = initialized
               /\ instError' = instError
               /\ instPc' = instPc
               /\ codesandboxContext' = codesandboxContext
               /\ codesandbox' = codesandbox
               /\ provider' = provider
               /\ isReady' = isReady]_vars

C9_Witness ==
    \/ race = "timeout" /\ sandboxPromise = "resolved" /\ isReady
    \/ race = "sandbox" /\ timeoutPromise = "rejected" /\ initialized /\ isReady

\* C10: after writeFile(p, c) on the local file system, readFile(p) on the store it
\* leaves returns exactly c.
C10_RoundTrip ==
    (lastOp.layer = "local" /\ lastOp.op = "writeFile") =>
        /\ lastOp.ok
        /\ Local_readFile(files, lastOp.path).ok
        /\ Local_readFile(files, lastOp.path).value = Text(lastOp.arg.content)

C10_Witness ==
    /\ lastOp.layer = "local"
    /\ lastOp.op = "writeFile"
    /\ lastOp.path = SrcAppTsx
    /\ lastOp.arg = Content("")
    /\ opCount = MaxLocalOps

----------------------------------------------------------------------------
(* LocalFileSystem: directories *)

\* the path mkdir(p, true) builds from the first k parts: '/' + part, k times
RECURSIVE PathOfSegments(_, _)
PathOfSegments(segs, k) ==
    IF k = 0 THEN <<>> ELSE PathOfSegments(segs, k - 1) \o <<Slash>> \o segs[k]

\* the paths held by a store
StoredPaths(fs) == {fs[i].path : i \in 1..Len(fs)}

\* q lies under p: it starts with p + '/' (with '/' when p is the root)
Under(q, p) == StartsWith(q, DirPrefix(p)) /\ q # p

\* q is an entry directly in p
ChildOf(q, p) == Under(q, p) /\ ~IncludesSlash(SubstringFrom(q, Len(DirPrefix(p))))

\* C11: in every reachable store, for every path p, the second of two successive
\* mkdir(p, true) calls returns normally and leaves the store as the first left it.
C11_MkdirRecursiveIdempotent ==
        \A p \in Paths :
            LET first == Local_mkdir(files, p, TRUE)
                second == Local_mkdir(first.files, p, TRUE)
            IN  first.ok /\ second.ok /\ second.files = first.files

\* a recursive mkdir has just created more than one node; the store it left is one the
\* second call runs on
C11_Witness ==
    /\ lastOp.layer = "local" /\ lastOp.op = "mkdir"
    /\ lastOp.arg = Recursive(TRUE) /\ lastOp.ok
    /\ lastOp.path = <<Slash, "x", Slash, "s", Slash, "x">>
    /\ Len(files) = Len(SeedFiles) + 3

\* C12: mkdir(p, false) on a stored p throws 'Directory already exists' and leaves the
\* store as it was; mkdir(p, true) on a missing p returns, adds an empty-content node
\* at each missing segment prefix of p and nothing else, and keeps every node there was.
C12_MkdirExistingAndMissing ==
        \A p \in Paths :
            IF MapHas(files, p)
            THEN LET r == Local_mkdir(files, p, FALSE)
                 IN  ~r.ok /\ r.error = "Directory already exists" /\ r.files = files
            ELSE LET r == Local_mkdir(files, p, TRUE)
                     segs == Segments(p)
                     prefixes == {PathOfSegments(segs, k) : k \in 1..Len(segs)}
                 IN  /\ r.ok
                     /\ Len(r.files) >= Len(files)
                     /\ SubSeq(r.files, 1, Len(files)) = files
                     /\ StoredPaths(r.files) = StoredPaths(files) \cup prefixes
                     /\ \A i \in (Len(files) + 1)..Len(r.files) : r.files[i].content = ""

\* both cases at once: a non-recursive mkdir on a stored path has just failed, in a
\* store where a recursive mkdir of a missing path has two prefixes to create
C12_Witness ==
    /\ lastOp.layer = "local" /\ lastOp.op = "mkdir"
    /\ lastOp.arg = Recursive(FALSE) /\ ~lastOp.ok
    /\ lastOp.path = SrcAppTsx
    /\ ~MapHas(files, <<Slash, "x", Slash, "s">>) /\ ~MapHas(files, <<Slash, "x">>)

\* C13: deleteDirectory(p, false) on a stored p with an entry directly in it throws
\* 'Directory not empty' and leaves the store as it was.
C13_DeleteNonEmptyFails ==
        \A p \in Paths :
            (MapHas(files, p) /\ \E q \in StoredPaths(files) : ChildOf(q, p)) =>
                LET r == Local_deleteDirectory(files, p, FALSE)
                IN  ~r.ok /\ r.error = "Directory not empty" /\ r.files = files

\* a non-recursive deleteDirectory has just failed on a directory that holds a child
C13_Witness ==
    /\ lastOp.layer = "local" /\ lastOp.op = "deleteDirectory"
    /\ lastOp.arg = Recursive(FALSE) /\ ~lastOp.ok
    /\ lastOp.error = "Directory not empty"
    /\ MapHas(files, lastOp.path) /\ MapGet(files, lastOp.path).content = ""

C15_WriteFileCreatesAncestors ==
    (lastOp.layer = "local" /\ lastOp.op = "writeFile" /\ lastOp.ok) =>
        LET segs == Segments(lastOp.path)
        IN  \A k \in 1..(Len(segs) - 1) : MapHas(files, PathOfSegments(segs, k))

C17_MissingPathNotFound ==
        \A p \in Paths : ~MapHas(files, p) =>
            /\ \A r \in {Local_readFile(files, p), Local_stat(files, p),
                         Local_deleteFile(files, p)} :
                  ~r.ok /\ r.error = "File not found" /\ r.files = files
            /\ \A rec \in BOOLEAN :
                  LET r == Local_deleteDirectory(files, p, rec)
                  IN  ~r.ok /\ r.error = "Directory not found" /\ r.files = files

\* a deleteFile of a missing path has just failed
C17_Witness ==
    /\ lastOp.layer = "local" /\ lastOp.op = "deleteFile"
    /\ ~lastOp.ok /\ lastOp.error = "File not found"
    /\ ~MapHas(files, lastOp.path)
    /\ opCount = MaxLocalOps

\* C18: readdir(d) on a path that is not in the store and has nothing under it fails.
C18_ReaddirMissingFails ==
    (/\ lastOp.layer = "local" /\ lastOp.op = "readdir"
     /\ ~MapHas(files, lastOp.path)
     /\ ~\E q \in StoredPaths(files) : Under(q, lastOp.path))
        => ~lastOp.ok

----------------------------------------------------------------------------
(* Text search *)

\* the matches a search delivered, batch after batch
RECURSIVE MatchesOf(_)
MatchesOf(events) ==
    IF events = <<>> THEN <<>>
    ELSE (IF Head(events).kind = "batch" THEN Head(events).matches ELSE <<>>)
           \o MatchesOf(Tail(events))

\* two code units that differ by case at most
SameIgnoringCase(c, d) == ToLowerChar(c) = ToLowerChar(d)

\* the index (0-based) in the line itself of the first occurrence of the query,
\* ignoring case; -1 when the line holds none
FirstOccurrenceIgnoringCase(line, query) ==
    FirstIndex(Len(line) - Len(query),
               LAMBDA i : \A k \in 1..Len(query) : SameIgnoringCase(line[i + k], query[k]))

\* C19: in a search by textSearch, of the real instance or of the mock, no batch is
\* delivered for a path that options.excludePattern matches and no delivered match
\* carries such a path.
C19_ExcludedFilesContributeNothing ==
    (lastOp.layer = "search" /\ lastOp.options.excludePattern # NoPattern) =>
        /\ \A i \in 1..Len(lastOp.events) :
              lastOp.events[i].kind = "batch"
                 => ~RegExpTest(lastOp.options.excludePattern, lastOp.events[i].path)
        /\ LET ms == MatchesOf(lastOp.events)
           IN  \A i \in 1..Len(ms) : ~RegExpTest(lastOp.options.excludePattern, ms[i].path)

SpanMatches(line, start, end, query, options) ==
    LET ignoreCase == ~options.caseSensitive
    IN  IF options.useRegExp
        THEN RegExpMatchEnd(line, query, start, ignoreCase, FALSE) = end
        ELSE IF options.wholeWord
             THEN /\ WordBoundary(line, start)
                  /\ RegExpMatchEnd(line, query, start, ignoreCase, TRUE) = end
             ELSE /\ end - start = Len(query)
                  /\ \A k \in 1..Len(query) :
                        IF ignoreCase THEN SameIgnoringCase(line[start + k], query[k])
                        ELSE line[start + k] = query[k]

BatchesFor(events, path) ==
    {i \in 1..Len(events) : events[i].kind = "batch" /\ events[i].path = path}

\* the line numbers of the text that the query matches in the mode of the options
MatchingLines(text, query, options) ==
    {n \in 1..Len(text) : LineMatchIndex(text[n], query, options) # -1}

\* the batch events[i] is the flush of one whole scan of its file: it comes right
\* after the readFile of that file, is not empty, and holds one match for each
\* matching line of the file and no other
FlushOfOneScan(events, i, text, query, options) ==
    LET batch == events[i]
        lines == TreeContent(batch.path, text)
    IN  /\ i > 1 /\ events[i - 1] = SearchSettled("readFile", batch.path)
        /\ batch.matches # <<>>
        /\ {batch.matches[k].lineNumber : k \in 1..Len(batch.matches)}
              = MatchingLines(lines, query, options)
        /\ Len(batch.matches) = Cardinality(MatchingLines(lines, query, options))

C23_BatchesInLineOrder ==
    (lastOp.layer = "search") =>
        \A i \in 1..Len(lastOp.events) :
           lastOp.events[i].kind = "batch" =>
              LET batch == lastOp.events[i]
              IN  /\ \A k \in 1..Len(batch.matches) : batch.matches[k].path = batch.path
                  /\ \A k \in 1..(Len(batch.matches) - 1) :
                        batch.matches[k].lineNumber < batch.matches[k + 1].lineNumber

\* the walk delivered a batch of two matches for a file whose first line holds the
\* query twice
C23_Witness ==
    /\ lastOp.layer = "search" /\ lastOp.op = "textSearch"
    /\ lastOp.text[1] = <<"a", "b", "a">>
    /\ lastOp.query = <<"a">>
    /\ \E i \in 1..Len(lastOp.events) :
          /\ lastOp.events[i].kind = "batch"
          /\ lastOp.events[i].path = GPath
          /\ Len(lastOp.events[i].matches) = 2

\* C24: over one search, by the walk or by the mock, the matches delivered through
\* the progress callback number options.maxResults at most.
C24_MaxResultsCapsMatches ==
    (lastOp.layer = "search") =>
        Len(MatchesOf(lastOp.events)) <= lastOp.options.maxResults

\* a primitive failing at faultPath keeps the walk from the file at path
CutOff(faultPath, path) ==
    faultPath = path \/ StartsWith(path, faultPath \o <<Slash>>)

\* the file at path is one that the options let the walk scan
Selected(path, options) ==
    /\ options.excludePattern # NoPattern => ~RegExpTest(options.excludePattern, path)
    /\ options.includePattern # NoPattern => RegExpTest(options.includePattern, path)

Outstanding(events, n) ==
    Cardinality({i \in 1..n : events[i].kind = "call"})
      - Cardinality({i \in 1..n : events[i].kind = "settled"})

\* the event is about the entry at path or about something below it
Concerns(event, path) == CutOff(path, event.path)

\* C26: the walk is sequential and depth first.  At every moment of a search at most
\* one call of readdir, stat or readFile is outstanding; and in the walk of '/', whose
\* entries are the directory '/s' and then the file '/g', everything done for '/s' and
\* below it (the stat and the scan of '/s/x' included, when '/s' can be read) comes
\* before anything is done for '/g'.
C26_SequentialDepthFirst ==
    (lastOp.layer = "search" /\ lastOp.op = "textSearch") =>
        /\ \A n \in 0..Len(lastOp.events) : Outstanding(lastOp.events, n) \in {0, 1}
        /\ lastOp.options.folders # Folders(OverlappingFolders) =>
              /\ \A i, j \in 1..Len(lastOp.events) :
                    (Concerns(lastOp.events[i], SDir) /\ Concerns(lastOp.events[j], GPath))
                       => i < j
              /\ (instFileSystem = Handle /\ ~CutOff(lastOp.fault.path, SDir)) =>
                    \E i, j \in 1..Len(lastOp.events) :
                       /\ i < j
                       /\ lastOp.events[i] = SearchSettled("stat", SXPath)
                       /\ lastOp.events[j] = SearchCall("stat", GPath)

\* a walk of '/' that read both '/s/x' and '/g'
C26_Witness ==
    /\ lastOp.layer = "search" /\ lastOp.op = "textSearch"
    /\ lastOp.options.folders = Folders(RootFolders)
    /\ \E i, j \in 1..Len(lastOp.events) :
          /\ lastOp.events[i] = SearchSettled("readFile", SXPath)
          /\ lastOp.events[j] = SearchSettled("readFile", GPath)

----------------------------------------------------------------------------
(* Search component *)

\* the pairs <<a, k>> of a provider match and one of its ranges, in the order in
\* which the provider gave them
RECURSIVE RangesInOrder(_, _)
RangesInOrder(apiMatches, a) ==
    IF a > Len(apiMatches) THEN <<>>
    ELSE [k \in 1..Len(apiMatches[a].ranges) |-> <<a, k>>] \o RangesInOrder(apiMatches, a + 1)

\* C28: of one provider callback, performWebContainerSearch forwards one batch that
\* holds, for each range of each provider match in order, the match with lineNumber =
\* range.startLineNumber, matchCharStart = range.startColumn, matchCharEnd =
\* range.endColumn and previewText = the line of the preview at index
\* range.startLineNumber - (the line the preview declares to start at) when the
\* preview declares one and the index is one of its lines, the first line of the
\* preview otherwise; it forwards nothing when there is no range at all.
C28_NativeReconciliation ==
    (lastOp.layer = "native") =>
        LET pairs == RangesInOrder(lastOp.apiMatches, 1)
        IN  IF pairs = <<>>
            THEN lastOp.forwarded = <<>>
            ELSE /\ Len(lastOp.forwarded) = 1
                 /\ Len(lastOp.forwarded[1]) = Len(pairs)
                 /\ \A n \in 1..Len(pairs) :
                       LET apiMatch == lastOp.apiMatches[pairs[n][1]]
                           range == apiMatch.ranges[pairs[n][2]]
                           lines == SplitLines(apiMatch.preview.text, <<>>)
                           declared == apiMatch.preview.matches # <<>>
                           index == range.startLineNumber
                                      - apiMatch.preview.matches[1].startLineNumber
                           match == lastOp.forwarded[1][n]
                       IN  /\ match.path = lastOp.filePath
                           /\ match.lineNumber = range.startLineNumber
                           /\ match.matchCharStart = range.startColumn
                           /\ match.matchCharEnd = range.endColumn
                           /\ match.previewText =
                                 IF declared /\ index \in 0..(Len(lines) - 1)
                                 THEN lines[index + 1]
                                 ELSE lines[1]

\* a callback with two provider matches: a range on the second line of a preview that
\* starts at line 1, and a range before the line at which its preview starts
C28_Witness ==
    /\ lastOp.layer = "native"
    /\ Len(lastOp.apiMatches) = 2
    /\ Len(lastOp.forwarded) = 1
    /\ Len(lastOp.forwarded[1]) = 2
    /\ lastOp.forwarded[1][1].lineNumber = 2
    /\ lastOp.forwarded[1][1].previewText = <<"b">>
    /\ lastOp.apiMatches[2].preview.matches = <<[startLineNumber |-> 2]>>
    /\ lastOp.forwarded[1][2].lineNumber = 1
    /\ lastOp.forwarded[1][2].previewText = <<"a">>

\* what the results pane shows besides the grouped results: the spinner, and the
\* line 'No results found.'
ShowsSearching == isSearching

ShowsNoResults ==
    /\ ~isSearching
    /\ hasSearched
    /\ Len(searchResults) = 0
    /\ ~IsBlank(searchQuery)

\* the search that the pane reports on has ended, and nothing else is under way: it
\* is the last call of handleSearch, for the query and the provider on display
SettledRun(i) ==
    /\ i = Len(runs)
    /\ \A j \in 1..Len(runs) : runs[j].pc = "done"
    /\ runs[i].query = searchQuery
    /\ runs[i].provider = searchProvider
    /\ debounced.current = <<>>
    /\ debounced.stale = <<>>
    /\ timers = 0

ProviderFailures == {"rejected", "notLoaded", "unhealthy", "threw"}

\* C29: when a search has ended because its provider failed (its promise rejected,
\* the instance is not loaded or unhealthy, or the search threw), the pane does not
\* show 'No results found.'
C29_FailureIsNotNoResults ==
    \A i \in 1..Len(runs) :
        SettledRun(i) /\ runs[i].failure \in ProviderFailures => ~ShowsNoResults

\* the term occurs in some file of the instance: a search that runs finds it
TermOccurs(query) ==
    \E s \in InstSearches \cup MockSearches :
        s.query = query /\ Len(s.outcome.batches) > 0

\* a call of handleSearch for a term that occurs in some file, whose provider
\* (CodeSandbox, real or mock) reported unhealthy or whose search threw
FailedSearchFor(query) ==
    /\ TermOccurs(query)
    /\ \E i \in 1..Len(runs) :
         /\ runs[i].provider = "codesandbox"
         /\ runs[i].query = query
         /\ runs[i].failure \in {"unhealthy", "threw"}

\* C30: when the provider of a search reports unhealthy or its search throws, the
\* search is retried with another strategy, so that a query whose term occurs in some
\* file eventually delivers a non-empty batch
C30_FailedSearchStillDelivers ==
    FailedSearchFor(<<"a">>) ~> (Len(searchResults) > 0)

\* the display holds the matches that the mock's textSearch finds for the query
MockMatchesShown(query) ==
    \E s \in MockSearches :
        /\ s.query = query
        /\ Len(s.outcome.batches) > 0
        /\ \A n \in 1..Len(s.outcome.batches) :
              \A k \in 1..Len(s.outcome.batches[n]) :
                 \E m \in 1..Len(searchResults) : searchResults[m] = s.outcome.batches[n][k]

\* handleSearch has been called with the CodeSandbox provider, on the mock instance,
\* for a term that a mock file holds
MockSearchFor(query) ==
    /\ codesandbox = "mock"
    /\ \E s \in MockSearches : s.query = query /\ Len(s.outcome.batches) > 0
    /\ \E i \in 1..Len(runs) :
         runs[i].provider = "codesandbox" /\ runs[i].query = query

\* C31: on the mock instance a search with the CodeSandbox provider for a term that
\* occurs in a mock file invokes the mock's textSearch and delivers the matches of
\* that file to the results
C31_MockSearchDelivers ==
    MockSearchFor(<<"a">>) ~> MockMatchesShown(<<"a">>)

----------------------------------------------------------------------------
(* Uploads *)

\* where a blob is to go: under its relative path in a folder upload when it carries
\* one, under its name otherwise
BlobTarget(kind, blob) ==
    <<Slash>> \o (IF kind = "uploadFolder" /\ Len(blob.webkitRelativePath) > 0
                  THEN blob.webkitRelativePath
                  ELSE blob.name)

\* the steps of the loop of an upload: it starts, it makes its next write and goes
\* on, it resolves, it rejects
UploadStarts == uploadQueue.kind = "none" /\ uploadQueue'.kind # "none"

UploadGoesOn ==
    /\ uploadQueue.kind # "none"
    /\ uploadQueue'.kind = uploadQueue.kind
    /\ uploadQueue' # uploadQueue

UploadResolves ==
    /\ uploadQueue.kind # "none"
    /\ uploadQueue' = NoUpload
    /\ lastOp'.ok

UploadRejects ==
    /\ uploadQueue.kind # "none"
    /\ uploadQueue' = NoUpload
    /\ ~lastOp'.ok

IsLocal == mgrFileSystem \notin {"webcontainer", "codesandbox"}

\* C33: an upload issues one write per blob in batch order, one at a time, to
\* '/' + relative path in a folder upload of a blob that carries one and to
\* '/' + name otherwise; when a write fails the upload rejects at once: the writes
\* made before stay made and no later blob is written
C33_UploadWritesInOrder ==
    /\ [][UploadStarts => files' = files /\ lastOp' = lastOp]_vars
    /\ [][UploadGoesOn =>
            LET blob == Head(uploadQueue.blobs)
                path == BlobTarget(uploadQueue.kind, blob)
            IN  /\ Len(uploadQueue.blobs) > 0
                /\ uploadQueue'.blobs = Tail(uploadQueue.blobs)
                /\ lastOp'.op = "writeFile"
                /\ lastOp'.ok
                /\ lastOp'.path = path
                /\ lastOp'.arg = Content(blob.text)
                /\ lastOp'.calls = <<[method |-> "writeFile", path |-> path]>>
                /\ IsLocal => /\ MapHas(files', path)
                              /\ MapGet(files', path).content = blob.text
                              /\ \A i \in 1..Len(files) : MapHas(files', files[i].path)]_vars
    /\ [][UploadResolves =>
            /\ Len(uploadQueue.blobs) = 0
            /\ lastOp'.op = uploadQueue.kind
            /\ files' = files]_vars
    /\ [][UploadRejects =>
            /\ Len(uploadQueue.blobs) > 0
            /\ lastOp'.op = uploadQueue.kind
            /\ lastOp'.error # NoError
            /\ files' = files]_vars

\* a folder upload of two blobs, one with a relative path and one without, has
\* written the first under its relative path and has the second still to write
C33_Witness ==
    /\ uploadQueue.kind = "uploadFolder"
    /\ Len(uploadQueue.blobs) = 1
    /\ uploadQueue.blobs[1].webkitRelativePath = <<>>
    /\ lastOp.op = "writeFile"
    /\ lastOp.ok
    /\ lastOp.path = <<Slash, "s", Slash, "x">>

UnifiedOperations ==
    {"readFile", "writeFile", "readdir", "mkdir", "deleteFile", "deleteDirectory",
     "exists", "stat", "uploadFiles", "uploadFolder"}

\* C34: while isReady is false every unified operation rejects with the not-ready
\* error without a call on any adapter (and without a change of the stored files or
\* the start of an upload loop), and healthCheck returns false
C34_ReadinessGate ==
    [][(opCount' = opCount + 1 /\ ~isReady) =>
          /\ lastOp'.layer = "manager"
          /\ lastOp'.op \in UnifiedOperations \cup {"healthCheck"}
          /\ ~lastOp'.ready
          /\ lastOp'.calls = <<>>
          /\ files' = files
          /\ uploadQueue' = uploadQueue
          /\ IF lastOp'.op = "healthCheck"
             THEN lastOp'.ok /\ lastOp'.value = Flag(FALSE)
             ELSE ~lastOp'.ok /\ lastOp'.error = ErrNotReady]_vars

\* a writeFile issued while the manager was still initializing, in the browser with
\* an API key
C34_Witness ==
    /\ lastOp.layer = "manager"
    /\ lastOp.op = "writeFile"
    /\ ~lastOp.ready
    /\ lastOp.error = ErrNotReady
    /\ ~ssr
    /\ apiKey

----------------------------------------------------------------------------
(* Search component: searches that overlap *)

\* the i-th call of handleSearch hands a batch to progressHandler on this step
Delivers(i) ==
    /\ Len(runs') = Len(runs)
    /\ runs[i].pc = "searching"
    /\ runs'[i].batches # runs[i].batches

\* a newer call of handleSearch has started, the query has been cleared, or the
\* provider is no longer the one the call searches with
Superseded(i) ==
    \/ i < Len(runs)
    \/ IsBlank(searchQuery)
    \/ runs[i].provider # searchProvider

\* C35: no batch of a superseded search is appended to searchResults
C35_SupersededNeverDisplayed ==
    [][\A i \in 1..Len(runs) :
          Delivers(i) /\ Superseded(i) => searchResults' = searchResults]_vars

\* a call of handleSearch with a non-empty query that has not reached the end of
\* its finally block
InFlight(i) == runs[i].pc # "done"

\* C36: while a search started by handleSearch has not finished, isSearching is
\* true; the end of one search does not clear it while another is in flight
C36_LoadingCoversRunningSearches ==
    (\E i \in 1..Len(runs) : InFlight(i)) => isSearching

----------------------------------------------------------------------------
(* HybridFileManager.getFileTree on a ready manager whose adapter is the    *)
(* LocalFileSystem: readdir, stat and readFile go straight to the store     *)

Tree(nodes) == [tree |-> nodes]

\* traverse(path): readdir, then for each entry stat and readFile or the traversal
\* of the directory; an entry that cannot be accessed is skipped
RECURSIVE Traverse(_, _)
RECURSIVE TraverseEntries(_, _, _)
TraverseEntries(fs, path, entries) ==
    IF entries = <<>> THEN <<>>
    ELSE LET fullPath == CollapseSlashes(path \o <<Slash>> \o Head(entries))
             stat == Local_stat(fs, fullPath)
             content == Local_readFile(fs, fullPath)
             found == IF ~stat.ok THEN <<>>
                      ELSE IF stat.value.isFile
                           THEN IF content.ok
                                THEN <<FileNode(fullPath, content.value.text)>>
                                ELSE <<>>
                           ELSE IF stat.value.isDirectory THEN Traverse(fs, fullPath)
                                ELSE <<>>
         IN  found \o TraverseEntries(fs, path, Tail(entries))

Traverse(fs, path) ==
    LET entries == Local_readdir(fs, path)
    IN  IF entries.ok THEN TraverseEntries(fs, path, entries.value.entries) ELSE <<>>

GetFileTree(fs, rootPath) == Traverse(fs, rootPath)

LocalGetFileTree ==
    /\ opCount < MaxLocalOps
    /\ lastOp' = [layer |-> "local", op |-> "getFileTree", path |-> <<Slash>>,
                  arg |-> NoArg, ok |-> TRUE, value |-> Tree(GetFileTree(files, <<Slash>>)),
                  error |-> NoError]
    /\ opCount' = opCount + 1
    /\ UNCHANGED <<uiVars, storeVars, initVars, mgrVars, files, uploadQueue>>

TreeNext == LocalNext \/ LocalGetFileTree

TreeSpec == InitLocal /\ [][TreeNext]_vars

\* the store entries with non-empty content
StoredFiles == {files[i] : i \in {k \in 1..Len(files) : files[k].content # ""}}

\* C37: on the local provider getFileTree('/') returns exactly the store entries with
\* non-empty content, each once and with its stored content; in particular every
\* seeded file is returned
C37_FileTreeIsStore ==
    lastOp.op = "getFileTree" =>
        LET tree == lastOp.value.tree
        IN  /\ {tree[k] : k \in 1..Len(tree)} = StoredFiles
            /\ \A j, k \in 1..Len(tree) : tree[j].path = tree[k].path => j = k

\* C38: after a successful deleteDirectory(p, false) on the local file system no
\* entry whose path lies under p remains in the store
C38_NonRecursiveDeleteLeavesNothingUnder ==
    /\ lastOp.layer = "local"
    /\ lastOp.op = "deleteDirectory"
    /\ lastOp.arg = Recursive(FALSE)
    /\ lastOp.ok
    => \A i \in 1..Len(files) : ~Under(files[i].path, lastOp.path)

----------------------------------------------------------------------------
(* HybridFilesStore on the page without an API key whose WebContainer does  *)
(* not boot: the manager falls back to the LocalFileSystem.  A store method *)
(* suspends at each await, and the callers may make their next call while   *)
(* earlier ones are suspended.  isLoading and error are left out, and so    *)
(* are the two uploads, which run the manager's loop (see UploadWrite) and  *)
(* then loadFileTree().                                                     *)

\* calls that the callers of the store make in one behaviour
MaxStoreCalls == 2

StorePaths == {PackageJson, <<Slash, "x">>, <<Slash, "x", Slash, "s">>}

\* fileMap[path] = node
FileMapSet(fileMap, path, node) ==
    [q \in (DOMAIN fileMap) \cup {path} |-> IF q = path THEN node ELSE fileMap[q]]

\* delete currentFiles[path]
FileMapDelete(fileMap, path) == [q \in (DOMAIN fileMap) \ {path} |-> fileMap[q]]

\* for (const file of fileTree) fileMap[file.path] = file
RECURSIVE FileMapOf(_)
FileMapOf(fileTree) ==
    IF fileTree = <<>> THEN EmptyFileMap
    ELSE LET file == fileTree[Len(fileTree)]
         IN  FileMapSet(FileMapOf(SubSeq(fileTree, 1, Len(fileTree) - 1)), file.path, file)

\* `${path}/${entry}`.replace(/\/+/g, '/') for each entry
FullPaths(path, entries) ==
    [k \in 1..Len(entries) |-> CollapseSlashes(path \o <<Slash>> \o entries[k])]

\* getFileTree(rootPath) up to its first suspension: traverse(rootPath) has called
\* readdir, whose failure it catches
TraverseStarts(call, readdir) ==
    [call EXCEPT !.pc = "traversing",
                 !.todo = IF readdir.ok THEN FullPaths(<<Slash>>, readdir.value.entries)
                          ELSE <<>>,
                 !.found = <<>>]

\* _initialize(): the manager has become ready, loadFileTree() is called
StoreInitializeLoads ==
    /\ storeCalls[1].pc = "awaitReady"
    /\ isReady
    /\ \E o \in Outcomes("readdir") :
         storeCalls' = [storeCalls EXCEPT ![1] =
                           TraverseStarts(@, ManagerOp("readdir", <<Slash>>, NoArg, o).r)]
    /\ UNCHANGED <<uiVars, initVars, mgrVars, opVars, storeFiles, filesCount>>

\* refresh() / loadFileTree()
Store_loadFileTree ==
    /\ Len(storeCalls) <= MaxStoreCalls
    /\ \E o \in Outcomes("readdir") :
         storeCalls' = Append(storeCalls,
                              TraverseStarts(StoreCall("loadFileTree", <<Slash>>, NoArg,
                                                       "traversing", TRUE, <<>>, <<>>),
                                             ManagerOp("readdir", <<Slash>>, NoArg, o).r))
    /\ UNCHANGED <<uiVars, initVars, mgrVars, opVars, storeFiles, filesCount>>

\* one entry of the loop of traverse: stat, then readFile and files.push for a file,
\* or the readdir of traverse(fullPath) for a directory; an entry that cannot be
\* accessed is skipped.  The awaits of one entry are taken in one step.
TraverseStep ==
    \E i \in 1..Len(storeCalls) :
        /\ storeCalls[i].pc = "traversing"
        /\ storeCalls[i].todo # <<>>
        /\ \E os \in Outcomes("stat"), orf \in Outcomes("readFile"), ord \in Outcomes("readdir") :
             LET fullPath == Head(storeCalls[i].todo)
                 rest == Tail(storeCalls[i].todo)
                 stat == ManagerOp("stat", fullPath, NoArg, os).r
                 content == ManagerOp("readFile", fullPath, NoArg, orf).r
                 entries == ManagerOp("readdir", fullPath, NoArg, ord).r
             IN  storeCalls' = [storeCalls EXCEPT ![i] =
                     IF ~stat.ok THEN [@ EXCEPT !.todo = rest]
                     ELSE IF stat.value.isFile
                          THEN IF content.ok
                               THEN [@ EXCEPT !.todo = rest,
                                              !.found = Append(@, FileNode(fullPath,
                                                                           content.value.text))]
                               ELSE [@ EXCEPT !.todo = rest]
                          ELSE IF stat.value.isDirectory /\ entries.ok
                               THEN [@ EXCEPT !.todo = FullPaths(fullPath, entries.value.entries)
                                                         \o rest]
                               ELSE [@ EXCEPT !.todo = rest]]
        /\ UNCHANGED <<uiVars, initVars, mgrVars, opVars, storeFiles, filesCount>>

\* getFileTree has returned: this.files.set(fileMap); this.filesCount.set(fileTree.length)
LoadFileTreeSets ==
    \E i \in 1..Len(storeCalls) :
        /\ storeCalls[i].pc = "traversing"
        /\ storeCalls[i].todo = <<>>
        /\ storeFiles' = FileMapOf(storeCalls[i].found)
        /\ filesCount' = Len(storeCalls[i].found)
        /\ storeCalls' = [storeCalls EXCEPT ![i].pc = "done"]
        /\ UNCHANGED <<uiVars, initVars, mgrVars, opVars>>

\* a store method calls hybridFileManager.<method>(...) and awaits it
StoreAwaitsManager(op, method, path, arg) ==
    /\ Len(storeCalls) <= MaxStoreCalls
    /\ \E o \in Outcomes(method) :
         LET m == ManagerOp(method, path, arg, o)
         IN  /\ files' = m.r.files
             /\ storeCalls' = Append(storeCalls, StoreCall(op, path, arg, "awaitManager",
                                                           m.r.ok, <<>>, <<>>))
    /\ UNCHANGED <<uiVars, initVars, mgrVars, lastOp, opCount, uploadQueue, storeFiles,
                   filesCount>>

Store_writeFile ==
    \E p \in StorePaths, c \in Contents : StoreAwaitsManager("writeFile", "writeFile", p, Content(c))

Store_createFile ==
    \E p \in StorePaths, c \in Contents : StoreAwaitsManager("createFile", "writeFile", p, Content(c))

Store_deleteFile == \E p \in StorePaths : StoreAwaitsManager("deleteFile", "deleteFile", p, NoArg)

Store_createDirectory ==
    \E p \in StorePaths : StoreAwaitsManager("createDirectory", "mkdir", p, Recursive(TRUE))

Store_deleteDirectory ==
    \E p \in StorePaths, rec \in BOOLEAN :
        StoreAwaitsManager("deleteDirectory", "deleteDirectory", p, Recursive(rec))

StoreOps == {"writeFile", "createFile", "deleteFile", "createDirectory", "deleteDirectory"}

\* the manager's promise has settled and the store method goes on.  The local file
\* system settles each call as it is made and the promise chains from there to the
\* store are of one length, so these continuations run in the order of the calls.
StoreResumes(i, ops, ok) ==
    /\ i \in 1..Len(storeCalls)
    /\ storeCalls[i].pc = "awaitManager"
    /\ \A j \in 1..(i - 1) : storeCalls[j].pc # "awaitManager"
    /\ storeCalls[i].op \in ops
    /\ storeCalls[i].ok = ok

\* writeFile: currentFiles[path] = {...}; this.files.set({ ...currentFiles })
WriteFileSets ==
    \E i \in 1..Len(storeCalls) :
        /\ StoreResumes(i, {"writeFile"}, TRUE)
        /\ storeFiles' = FileMapSet(storeFiles, storeCalls[i].path,
                                    FileNode(storeCalls[i].path, storeCalls[i].arg.content))
        /\ storeCalls' = [storeCalls EXCEPT ![i].pc = "done"]
        /\ UNCHANGED <<uiVars, initVars, mgrVars, opVars, filesCount>>

\* createFile: as writeFile, then this.filesCount.set(Object.keys(currentFiles).length)
CreateFileSets ==
    \E i \in 1..Len(storeCalls) :
        /\ StoreResumes(i, {"createFile"}, TRUE)
        /\ storeFiles' = FileMapSet(storeFiles, storeCalls[i].path,
                                    FileNode(storeCalls[i].path, storeCalls[i].arg.content))
        /\ filesCount' = Cardinality(DOMAIN storeFiles')
        /\ storeCalls' = [storeCalls EXCEPT ![i].pc = "done"]
        /\ UNCHANGED <<uiVars, initVars, mgrVars, opVars>>

\* deleteFile: delete currentFiles[path]; set; filesCount
DeleteFileSets ==
    \E i \in 1..Len(storeCalls) :
        /\ StoreResumes(i, {"deleteFile"}, TRUE)
        /\ storeFiles' = FileMapDelete(storeFiles, storeCalls[i].path)
        /\ filesCount' = Cardinality(DOMAIN storeFiles')
        /\ storeCalls' = [storeCalls EXCEPT ![i].pc = "done"]
        /\ UNCHANGED <<uiVars, initVars, mgrVars, opVars>>

\* createDirectory / deleteDirectory: await this.loadFileTree()
DirectoryReloads ==
    \E i \in 1..Len(storeCalls) :
        /\ StoreResumes(i, {"createDirectory", "deleteDirectory"}, TRUE)
        /\ \E o \in Outcomes("readdir") :
             storeCalls' = [storeCalls EXCEPT ![i] =
                               TraverseStarts(@, ManagerOp("readdir", <<Slash>>, NoArg, o).r)]
        /\ UNCHANGED <<uiVars, initVars, mgrVars, opVars, storeFiles, filesCount>>

\* the manager threw: catch, console.error, throw error
StoreCatch ==
    \E i \in 1..Len(storeCalls) :
        /\ StoreResumes(i, StoreOps, FALSE)
        /\ storeCalls' = [storeCalls EXCEPT ![i].pc = "failed"]
        /\ UNCHANGED <<uiVars, initVars, mgrVars, opVars, storeFiles, filesCount>>

StoreStep ==
    \/ StoreInitializeLoads
    \/ Store_loadFileTree
    \/ Store_writeFile
    \/ Store_createFile
    \/ Store_deleteFile
    \/ Store_createDirectory
    \/ Store_deleteDirectory
    \/ TraverseStep
    \/ LoadFileTreeSets
    \/ WriteFileSets
    \/ CreateFileSets
    \/ DeleteFileSets
    \/ DirectoryReloads
    \/ StoreCatch

\* the manager settles on the local fallback
LocalFallback == MgrCodesandboxRejected \/ WebcontainerRejects \/ MgrWebcontainerRejected

StoreNext == LocalFallback \/ StoreStep

StoreSpec == InitLocal /\ [][StoreNext]_vars

\* every call on the store, _initialize() included, has completed
StoreQuiet == \A i \in 1..Len(storeCalls) : storeCalls[i].pc \in {"done", "failed"}

\* C39: after every completed store operation filesCount equals the number of paths
\* in the files map
C39_FilesCountIsMapSize ==
    StoreQuiet => filesCount = Cardinality(DOMAIN storeFiles)

\* the local file system holds path with this content
ProviderHolds(path, content) ==
    \E k \in 1..Len(files) : files[k].path = path /\ files[k].content = content

\* C40: under any interleaving of a loadFileTree traversal with writeFile, createFile
\* and deleteFile, once all operations have completed the files map of the store holds
\* no path that the provider no longer holds and no content other than the provider's
\* current content for that path
C40_StoreAgreesWithProvider ==
    StoreQuiet =>
        \A p \in DOMAIN storeFiles : ProviderHolds(p, storeFiles[p].content)
====
